---- MODULE Spec2Model ----
(***************************************************************************)
(* State-machine model of the milk booth application (src/app.py and      *)
(* src/migrate_2026_rates.py): the rate resolver, the amount calculator,  *)
(* the payment-cycle aggregator, the balance reconciler and the request   *)
(* handlers that create, edit and recompute Collection, Sale and          *)
(* Withdrawal rows.                                                        *)
(*                                                                         *)
(* Representation of Python values                                         *)
(*   str    a sequence of character codes (ASCII), so that startswith,     *)
(*          split('-'), int() and the lexical comparison of date strings  *)
(*          are computed as Python computes them.  The alphabet of the    *)
(*          strings built here is the digits, '-' and 'x'.                *)
(*   float  liters, fat and rates are decimal numbers with at most two    *)
(*          decimals and are held in hundredths (7.35 is 735, a rate of   *)
(*          48.0 is 4800).  Where IEEE-754 doubles differ from decimal    *)
(*          arithmetic (round(fat, 1) on a tie, the product liters*rate)  *)
(*          the difference is tabulated from the doubles themselves.      *)
(*   None   the value None; an absent or empty date string is the empty   *)
(*          sequence (both are falsy wherever the code tests them).       *)
(***************************************************************************)
EXTENDS Integers, Sequences, FiniteSets, TLC

VARIABLES
    suppliers,    \* table suppliers: set of rows [id, supplier_id, name]
    customers,    \* table customers: set of rows [id, cust_id, name]
    collections,  \* table collections: set of Collection rows
    sales,        \* table sales: set of Sale rows
    withdrawals,  \* table withdrawals: set of Withdrawal rows
    last,         \* the request handled last together with its response
    call,         \* the pure function called last: arguments and result
    sessions      \* the database sessions of the edit requests in flight

vars == <<suppliers, customers, collections, sales, withdrawals, last, call, sessions>>

tables == <<suppliers, customers, collections, sales, withdrawals>>

-----------------------------------------------------------------------------
(* Python values and string operations                                     *)

None == -999999

NoDate == <<>>

Dash == 45

\* the text 'xx'
LettersXX == <<120, 120>>

IsDigit(c) == c >= 48 /\ c <= 57

RECURSIVE str_int(_)
\* str(n) / f"{n}" for n >= 0: the decimal digits of n
str_int(n) == IF n < 10 THEN <<48 + n>> ELSE str_int(n \div 10) \o <<48 + (n % 10)>>

\* f"{n:02d}" for n >= 0: at least two digits, zero padded
fmt_02d(n) == IF n < 10 THEN <<48, 48 + n>> ELSE str_int(n)

\* the string "YYYY-MM-DD" of a date, as an HTML date input submits it
iso(y, m, d) == str_int(y) \o <<Dash>> \o fmt_02d(m) \o <<Dash>> \o fmt_02d(d)

\* s.startswith(p)
startswith(s, p) == Len(s) >= Len(p) /\ SubSeq(s, 1, Len(p)) = p

RECURSIVE str_lt(_, _)
\* a < b on Python strings: lexical order of the code points
str_lt(a, b) ==
    IF b = <<>> THEN FALSE
    ELSE IF a = <<>> THEN TRUE
    ELSE IF Head(a) # Head(b) THEN Head(a) < Head(b)
    ELSE str_lt(Tail(a), Tail(b))

\* a >= b on Python strings
str_ge(a, b) == ~str_lt(a, b)

RECURSIVE split_dash(_)
\* s.split('-'): the list of the parts between the dashes
split_dash(s) ==
    IF \A i \in 1..Len(s) : s[i] # Dash THEN <<s>>
    ELSE LET i == CHOOSE j \in 1..Len(s) :
                      s[j] = Dash /\ \A k \in 1..(j - 1) : s[k] # Dash
         IN  <<SubSeq(s, 1, i - 1)>> \o split_dash(SubSeq(s, i + 1, Len(s)))

\* int(s) raises ValueError unless s is a non-empty string of digits
int_ok(s) == s # <<>> /\ \A i \in 1..Len(s) : IsDigit(s[i])

RECURSIVE int_of(_)
\* int(s) for a string of digits
int_of(s) == IF s = <<>> THEN 0 ELSE 10 * int_of(SubSeq(s, 1, Len(s) - 1)) + (s[Len(s)] - 48)

RECURSIVE SumOver(_, _)
\* sum(f(r) for r in rows) over a set of rows; f is given as a field name
SumOver(rows, field) ==
    IF rows = {} THEN 0
    ELSE LET r == CHOOSE x \in rows : TRUE
         IN  r[field] + SumOver(rows \ {r}, field)

Max(S) == CHOOSE x \in S : \A y \in S : y <= x

-----------------------------------------------------------------------------
(* Rate charts and the rate resolver (src/app.py 46-104)                   *)

\* '2026-02-01'
NEW_RATES_START_DATE == <<50, 48, 50, 54, 45, 48, 50, 45, 48, 49>>

\* keys in tenths of a percent of fat, rates in hundredths of a rupee
BUFFALO_RATE_CHART ==
    50 :> 4000 @@ 51 :> 4080 @@ 52 :> 4160 @@ 53 :> 4240 @@ 54 :> 4320 @@
    55 :> 4400 @@ 56 :> 4480 @@ 57 :> 4560 @@ 58 :> 4640 @@ 59 :> 4720 @@
    60 :> 4800 @@ 61 :> 4880 @@ 62 :> 4960 @@ 63 :> 5040 @@ 64 :> 5120 @@
    65 :> 5200 @@ 66 :> 5280 @@ 67 :> 5360 @@ 68 :> 5440 @@ 69 :> 5520 @@
    70 :> 5600 @@ 71 :> 5680 @@ 72 :> 5760 @@ 73 :> 5840 @@ 74 :> 5920 @@
    75 :> 6000 @@ 76 :> 6080 @@ 77 :> 6160 @@ 78 :> 6240 @@ 79 :> 6320 @@
    80 :> 6400 @@ 81 :> 6480 @@ 82 :> 6560 @@ 83 :> 6640 @@ 84 :> 6720 @@
    85 :> 6800 @@ 86 :> 6880 @@ 87 :> 6960 @@ 88 :> 7040 @@ 89 :> 7120 @@
    90 :> 7200 @@ 91 :> 7280 @@ 92 :> 7360 @@ 93 :> 7440 @@ 94 :> 7520 @@
    95 :> 7600 @@ 96 :> 7680 @@ 97 :> 7760 @@ 98 :> 7840 @@ 99 :> 7920 @@
    100 :> 8000

COW_RATE_CHART ==
    30 :> 2530 @@ 31 :> 2553 @@ 32 :> 2576 @@ 33 :> 2599 @@ 34 :> 2622 @@
    35 :> 2645 @@ 36 :> 2668 @@ 37 :> 2691 @@ 38 :> 2714 @@ 39 :> 2737 @@
    40 :> 2760 @@ 41 :> 2783 @@ 42 :> 2806 @@ 43 :> 2829 @@ 44 :> 2852 @@
    45 :> 2875 @@ 46 :> 2898 @@ 47 :> 2921 @@ 48 :> 2944 @@ 49 :> 2967 @@
    50 :> 2990 @@ 51 :> 3013 @@ 52 :> 3036 @@ 53 :> 3059 @@ 54 :> 3082 @@
    55 :> 3105 @@ 56 :> 3128 @@ 57 :> 3151 @@ 58 :> 3174 @@ 59 :> 3197 @@
    60 :> 3220

\* int(fat * 10): the key cut off, not rounded
round_fat_times_10_truncated(fat) == fat \div 10

\* round(fat * 10) for fat held in hundredths.  In doubles fat * 10 is exactly
\* n + 0.5 for every two-decimal fat below 12.00 that ends in 5, and Python's
\* round() takes such a tie to the even neighbour.
round_fat_times_10(fat) ==
    LET q == fat \div 10
        r == fat % 10
    IN  IF r < 5 THEN q
        ELSE IF r > 5 THEN q + 1
        ELSE IF q % 2 = 0 THEN q ELSE q + 1

\* the chart chosen with the date looked at before the milk type: a date
\* before the threshold sends cow milk to the buffalo chart as well
rate_chart_date_first(milk_type, transaction_date) ==
    IF transaction_date # NoDate /\ ~str_ge(transaction_date, NEW_RATES_START_DATE)
    THEN "BUFFALO_RATE_CHART"
    ELSE IF milk_type = "cow" THEN "COW_RATE_CHART" ELSE "BUFFALO_RATE_CHART"

\* the chart the code reads for (milk_type, transaction_date): lines 89-104
rate_chart(milk_type, transaction_date) ==
    IF milk_type = "cow" THEN "COW_RATE_CHART"
    ELSE IF transaction_date # NoDate
         THEN IF str_ge(transaction_date, NEW_RATES_START_DATE)
              THEN "BUFFALO_RATE_CHART"
              ELSE "BUFFALO_RATE_CHART"
         ELSE "BUFFALO_RATE_CHART"

\* chart.get(k, 0): a missing key answered with a zero rate
chart_get_default_zero(chart, k) ==
    LET table == IF chart = "COW_RATE_CHART" THEN COW_RATE_CHART ELSE BUFFALO_RATE_CHART
    IN  IF k \in DOMAIN table THEN table[k] ELSE 0

\* the entry of the key one tenth above k
chart_get_next_key(chart, k) ==
    LET table == IF chart = "COW_RATE_CHART" THEN COW_RATE_CHART ELSE BUFFALO_RATE_CHART
    IN  IF k + 1 \in DOMAIN table THEN table[k + 1] ELSE None

\* chart.get(k)
chart_get(chart, k) ==
    LET table == IF chart = "COW_RATE_CHART" THEN COW_RATE_CHART ELSE BUFFALO_RATE_CHART
    IN  IF k \in DOMAIN table THEN table[k] ELSE None

find_rate(fat, milk_type, transaction_date) ==
    IF fat = None THEN None
    ELSE chart_get(rate_chart(milk_type, transaction_date), round_fat_times_10(fat))

-----------------------------------------------------------------------------
(* The amount calculator and the rounding of fat for storage               *)

\* The two-decimal fats f below 12.00 ending in 5 whose double lies above the
\* decimal tie, so that round(f, 1) goes up; for the others ending in 5 the
\* double lies below the tie (or, for x.25 and x.75, on it with an even lower
\* neighbour) and round(f, 1) goes down.
ROUND_1_TIE_UP ==
    {5, 45, 55, 65, 75, 105, 135, 155, 175, 185, 235, 245, 275, 285, 295,
     335, 345, 375, 385, 395, 415, 445, 465, 475, 495, 515, 545, 565, 575, 595,
     615, 645, 665, 675, 695, 715, 745, 765, 775, 795, 805, 815, 855, 865, 875,
     905, 915, 955, 965, 975, 1005, 1015, 1055, 1065, 1075, 1105, 1115, 1155,
     1165, 1175}

\* round(fat, 1) for 0 <= fat < 12.00 held in hundredths; the result, a
\* one-decimal number, is held in hundredths too
round_1(fat) ==
    LET q == fat \div 10
        r == fat % 10
    IN  IF r < 5 THEN 10 * q
        ELSE IF r > 5 THEN 10 * (q + 1)
        ELSE IF fat \in ROUND_1_TIE_UP THEN 10 * (q + 1) ELSE 10 * q

\* The (liters, rate) pairs, among the liters the requests below submit, whose
\* double product lies just below the integer the decimal product equals:
\* 2.05 * 60.0 is 122.99999999999999 in doubles.
FLOAT_PRODUCT_BELOW == {<<205, 6000>>}

\* math.floor(liters * rate), liters and rate in hundredths, the result in rupees
math_floor_mul(liters, rate) ==
    LET exact == (liters * rate) \div 10000
    IN  IF <<liters, rate>> \in FLOAT_PRODUCT_BELOW THEN exact - 1 ELSE exact

-----------------------------------------------------------------------------
(* The payment-cycle aggregator (src/app.py 42-44, 106-160)                *)

\* the last day of the month with a leap year every fourth year, centuries
\* included
get_last_day_of_month_every_fourth(year, month) ==
    IF month = 2
    THEN IF year % 4 = 0 THEN 29 ELSE 28
    ELSE IF month \in {4, 6, 9, 11} THEN 30 ELSE 31

\* calendar.monthrange(year, month)[1] for month in 1..12
get_last_day_of_month(year, month) ==
    IF month = 2
    THEN IF year % 4 = 0 /\ (year % 100 # 0 \/ year % 400 = 0) THEN 29 ELSE 28
    ELSE IF month \in {4, 6, 9, 11} THEN 30 ELSE 31

\* f"{year}-{month:02d}"
month_str_of(year, month) == str_int(year) \o <<Dash>> \o fmt_02d(month)

\* the cycles dictionary as lines 113-130 initialise it
\* Sums of liters are sums of doubles.  A float is held in two parts: the
\* hundredths, and in a field named with _ulps the units in the last place
\* by which the double stands off the double nearest those hundredths (0 for
\* every value read from a record).  FLOAT_SUM_ULPS gives the second part of
\* x + y for the sums, among those the transaction lists below lead to, whose
\* double is not the one nearest the decimal sum: 7.35 + 2.05 is
\* 9.399999999999999 in doubles, one unit below the double of 9.4.  The key is
\* <<hundredths of x, ulps of x, hundredths of y, ulps of y>>.
FLOAT_SUM_ULPS ==
    <<0, 0, 615, -1>> :> -1 @@ <<0, 0, 2615, 1>> :> 1 @@ <<0, 0, 4410, -1>> :> -1 @@
    <<205, 0, 735, 0>> :> -1 @@ <<410, 0, 205, 0>> :> -1 @@ <<735, 0, 205, 0>> :> -1 @@
    <<735, 0, 2410, 0>> :> 1 @@ <<1145, 0, 735, 0>> :> -1 @@ <<1205, 0, 205, 0>> :> 1 @@
    <<1410, 1, 205, 0>> :> 1 @@ <<1410, 1, 735, 0>> :> 1 @@ <<1470, 0, 410, 0>> :> -1 @@
    <<1470, 0, 735, 0>> :> -1 @@ <<1735, 0, 205, 0>> :> 1 @@ <<1735, 0, 410, 0>> :> 1 @@
    <<1735, 0, 735, 0>> :> 1 @@ <<1735, 0, 2205, 0>> :> 1 @@ <<1940, 1, 205, 0>> :> 1 @@
    <<1940, 1, 1000, 0>> :> 1 @@ <<1940, 1, 2000, 0>> :> 1 @@ <<2205, -1, 0, 0>> :> -1 @@
    <<2205, -1, 205, 0>> :> -1 @@ <<2410, 0, 205, 0>> :> 1 @@ <<2410, 0, 735, 0>> :> 1 @@
    <<2470, 1, 0, 0>> :> 1 @@ <<2470, 1, 205, 0>> :> 1 @@ <<2470, 1, 735, 0>> :> 1 @@
    <<2735, 0, 205, 0>> :> 1 @@ <<2940, 1, 205, 0>> :> 1 @@ <<2940, 1, 1000, 0>> :> 1 @@
    <<2940, 1, 2000, 0>> :> 1 @@ <<3205, 0, 205, 0>> :> -1 @@ <<3205, 1, 0, 0>> :> 1 @@
    <<3470, 0, 735, 0>> :> 1 @@ <<4205, 0, 205, 0>> :> -1

\* the second part of the double x + y
float_sum_ulps(x, x_ulps, y, y_ulps) ==
    IF <<x, x_ulps, y, y_ulps>> \in DOMAIN FLOAT_SUM_ULPS
    THEN FLOAT_SUM_ULPS[<<x, x_ulps, y, y_ulps>>]
    ELSE 0

initial_cycles(year, month) ==
    LET zero == [liters |-> 0, liters_ulps |-> 0, amount |-> 0, count |-> 0]
    IN  [cycle_1 |-> [start |-> month_str_of(year, month) \o <<Dash>> \o fmt_02d(1),
                      end |-> month_str_of(year, month) \o <<Dash>> \o fmt_02d(15),
                      morning |-> zero, evening |-> zero,
                      total_liters |-> 0, total_liters_ulps |-> 0, total_amount |-> 0],
         cycle_2 |-> [start |-> month_str_of(year, month) \o <<Dash>> \o fmt_02d(16),
                      end |-> month_str_of(year, month) \o <<Dash>>
                                  \o fmt_02d(get_last_day_of_month(year, month)),
                      morning |-> zero, evening |-> zero,
                      total_liters |-> 0, total_liters_ulps |-> 0, total_amount |-> 0]]

\* lines 134-141 and 157-158: the cycle a collection of the month goes to, or
\* "skip" when int(coll.date.split('-')[2]) raises IndexError or ValueError
cycle_of(coll) ==
    LET parts == split_dash(coll.date)
    IN  IF Len(parts) < 3 THEN "skip"
        ELSE IF ~int_ok(parts[3]) THEN "skip"
        ELSE LET day == int_of(parts[3])
             IN  IF 1 <= day /\ day <= 15 THEN "cycle_1" ELSE "cycle_2"

\* the collection added to the session its text names: a session that is
\* neither 'morning' nor 'evening' goes to the totals and to no session
added_to_named_session(cycle, coll) ==
    LET totalled == [cycle EXCEPT
                        !.total_liters = @ + coll.liters,
                        !.total_liters_ulps =
                            float_sum_ulps(cycle.total_liters, @, coll.liters, 0),
                        !.total_amount = @ + coll.amount]
    IN  IF coll.session \notin {"morning", "evening"} THEN totalled
        ELSE [totalled EXCEPT ![coll.session] =
                  [liters |-> @.liters + coll.liters,
                   liters_ulps |-> float_sum_ulps(@.liters, @.liters_ulps, coll.liters, 0),
                   amount |-> @.amount + coll.amount,
                   count |-> @.count + 1]]

\* lines 143-155: a collection added to the session and totals of a cycle
added_to(cycle, coll) ==
    LET slot == IF coll.session = "morning" THEN "morning" ELSE "evening"
    IN  [cycle EXCEPT ![slot] = [liters |-> @.liters + coll.liters,
                                 liters_ulps |->
                                     float_sum_ulps(@.liters, @.liters_ulps, coll.liters, 0),
                                 amount |-> @.amount + coll.amount,
                                 count |-> @.count + 1],
                      !.total_liters = @ + coll.liters,
                      !.total_liters_ulps =
                          float_sum_ulps(cycle.total_liters, @, coll.liters, 0),
                      !.total_amount = @ + coll.amount]

RECURSIVE process_collections_abort(_, _)
\* the loop leaving at the first collection whose day does not parse
process_collections_abort(cycles, monthly_collections) ==
    IF monthly_collections = <<>> THEN cycles
    ELSE LET coll == Head(monthly_collections)
             which == cycle_of(coll)
         IN  IF which = "skip" THEN cycles
             ELSE process_collections_abort([cycles EXCEPT ![which] = added_to(@, coll)],
                                            Tail(monthly_collections))

RECURSIVE process_collections(_, _)
\* the loop of lines 133-158 over the collections of the month, in order
process_collections(cycles, monthly_collections) ==
    IF monthly_collections = <<>> THEN cycles
    ELSE LET coll == Head(monthly_collections)
             which == cycle_of(coll)
             next == IF which = "skip" THEN cycles
                     ELSE [cycles EXCEPT ![which] = added_to(@, coll)]
         IN  process_collections(next, Tail(monthly_collections))

\* the aggregation without the filter on the month
calculate_payment_cycles_unfiltered(colls, year, month) ==
    process_collections(initial_cycles(year, month), colls)

calculate_payment_cycles(colls, year, month) ==
    LET month_str == month_str_of(year, month)
        monthly_collections == SelectSeq(colls, LAMBDA c : startswith(c.date, month_str))
    IN  process_collections(initial_cycles(year, month), monthly_collections)

-----------------------------------------------------------------------------
(* Initial state: the database as db.create_all() leaves it, no request    *)
(* handled and no function called yet                                      *)

NoRequest == [op |-> "none"]

NoCall == [fn |-> "none", done |-> TRUE]

\* the two clients whose requests may be in flight at once
Actors == {"a", "b"}

\* a request that has loaded nothing yet
NoSession == [pc |-> "idle"]

NoSessions == [actor \in Actors |-> NoSession]

Init ==
    /\ suppliers = {}
    /\ customers = {}
    /\ collections = {}
    /\ sales = {}
    /\ withdrawals = {}
    /\ last = NoRequest
    /\ sessions = NoSessions
    /\ call = NoCall

-----------------------------------------------------------------------------
(* The rate resolver called on its own                                     *)

\* largest fat, in hundredths, the resolver is called with
MaxFat == 1100

FatValues == 0..MaxFat \cup {None}

MilkTypes == {"buffalo", "cow"}

\* '2025-12-01', '2026-01-31', '2026-02-01', '2026-03-01' and no date
RateDates == {NoDate, iso(2025, 12, 1), iso(2026, 1, 31), iso(2026, 2, 1), iso(2026, 3, 1)}

\* a call of find_rate with its arguments bound, before it returns
InitRate ==
    /\ suppliers = {}
    /\ customers = {}
    /\ collections = {}
    /\ sales = {}
    /\ withdrawals = {}
    /\ last = NoRequest
    /\ sessions = NoSessions
    /\ \E fat \in FatValues, milk_type \in MilkTypes, d \in RateDates :
           call = [fn |-> "find_rate", done |-> FALSE,
                   fat |-> fat, milk_type |-> milk_type, transaction_date |-> d]

\* find_rate returns: the chart it read and the rate it found
call_find_rate ==
    /\ call.fn = "find_rate"
    /\ ~call.done
    /\ call' = [fn |-> "find_rate", done |-> TRUE,
                fat |-> call.fat,
                milk_type |-> call.milk_type,
                transaction_date |-> call.transaction_date,
                chart |-> IF call.fat = None THEN "none"
                          ELSE rate_chart(call.milk_type, call.transaction_date),
                result |-> find_rate(call.fat, call.milk_type, call.transaction_date)]
    /\ UNCHANGED <<tables, last, sessions>>

NextRate == call_find_rate

SpecRate == InitRate /\ [][NextRate]_vars

-----------------------------------------------------------------------------
(* Claims about the rate resolver, checked under SpecRate                  *)

\* the tenth nearest to a fat held in hundredths, the even one on a tie
NearestTenth(fat) ==
    CHOOSE k \in 0..((MaxFat \div 10) + 2) :
        \/ (10 * k - fat < 5 /\ fat - 10 * k < 5)
        \/ (10 * k - fat = 5 /\ k % 2 = 0)
        \/ (fat - 10 * k = 5 /\ k % 2 = 0)

\* the keys of the rate table of a milk type, in tenths
TableKeys(milk_type) == IF milk_type = "cow" THEN 30..60 ELSE 50..100

Tabulated(milk_type, k) ==
    IF milk_type = "cow" THEN COW_RATE_CHART[k] ELSE BUFFALO_RATE_CHART[k]

Returned == call.fn = "find_rate" /\ call.done

\* C2: find_rate returns exactly the tabulated rate when the one-decimal key
\* of fat is a key of the table of the milk type (buffalo 5.0..10.0, cow
\* 3.0..6.0, step 0.1), and None, never zero or a neighbouring rate, when the
\* key is not in the table or fat is None.
C2_TabulatedOrNotFound ==
    Returned =>
        IF call.fat # None /\ NearestTenth(call.fat) \in TableKeys(call.milk_type)
        THEN call.result = Tabulated(call.milk_type, NearestTenth(call.fat))
        ELSE call.result = None

\* C2 witness: fat 6.45 quantizes to the key 6.4 and buffalo resolves to 51.2
C2_Witness ==
    /\ Returned
    /\ call.fat = 645
    /\ call.milk_type = "buffalo"
    /\ call.result = 5120

\* C3 as claimed: for buffalo a date on or after 2026-02-01 is resolved from
\* the new buffalo table and a date before it from another, older table.
C3_OldTableBeforeThreshold ==
    (Returned /\ call.fat # None /\ call.milk_type = "buffalo"
              /\ call.transaction_date # NoDate) =>
        IF str_ge(call.transaction_date, NEW_RATES_START_DATE)
        THEN call.chart = "BUFFALO_RATE_CHART"
        ELSE call.chart # "BUFFALO_RATE_CHART"

\* C9 as claimed: buffalo fat 4.99 resolves to not found.
C9_Fat499NotFound ==
    (Returned /\ call.milk_type = "buffalo" /\ call.fat = 499) => call.result = None

\* C9 amended: for buffalo a fat below the table's first key 5.0 resolves to
\* not found exactly when it quantizes below 5.0, that is when fat < 4.95;
\* 4.95 to 4.99 quantize to the key 5.0 and resolve to its rate 40.0.
C9_BelowTableNotFound ==
    (Returned /\ call.milk_type = "buffalo" /\ call.fat # None /\ call.fat < 500) =>
        IF call.fat < 495 THEN call.result = None ELSE call.result = 4000

\* C9 witness: buffalo fat 4.99 has resolved to 40.0
C9_Witness ==
    /\ Returned
    /\ call.milk_type = "buffalo"
    /\ call.fat = 499
    /\ call.result = 4000

-----------------------------------------------------------------------------
(* Request handlers (src/app.py).  Every handler is one request: it reads   *)
(* the tables, commits at most once and leaves its response in `last`.     *)
(* current_user is the parameter user, the submitted form the parameter    *)
(* data (an absent or empty field is "" or NoDate), and the wall clock     *)
(* read by get_today_ist() the parameter today.                            *)

\* role_required(*roles): the roles named, and admin always
role_allowed(user, roles) == user.role \in roles \/ user.role = "admin"

\* the id the database gives a new row: one more than the largest in the table
next_id(rows) == IF rows = {} THEN 1 ELSE Max({r.id : r \in rows}) + 1

\* Model.query.filter_by(key=value).first(), as the set of rows it may return
first_by(rows, key, value) == {r \in rows : r[key] = value}

denied(op, user) ==
    /\ last' = [op |-> op, role |-> user.role, status |-> "denied"]
    /\ UNCHANGED <<tables, call, sessions>>

\* most Collection and Sale rows, taken together, the tables are let grow to
MaxRows == 2

\* whether the collections and sales tables have room for one more row
room_for_row == Cardinality(collections) + Cardinality(sales) < MaxRows

\* the supplier added without the query for its supplier_id
suppliers_post_unqueried(user, data) ==
    /\ role_allowed(user, {"admin", "employee"})
    /\ data.supplier_id # "" /\ data.name # ""
    /\ suppliers' = suppliers \cup
           {[id |-> next_id(suppliers), supplier_id |-> data.supplier_id, name |-> data.name]}
    /\ last' = [op |-> "suppliers", role |-> user.role, status |-> "ok", data |-> data]
    /\ UNCHANGED <<customers, collections, sales, withdrawals, call, sessions>>

\* POST /suppliers
suppliers_post(user, data) ==
    IF ~role_allowed(user, {"admin", "employee"}) THEN denied("suppliers", user)
    ELSE IF data.supplier_id = "" \/ data.name = ""
    THEN /\ last' = [op |-> "suppliers", role |-> user.role, status |-> "required", data |-> data]
         /\ UNCHANGED <<tables, call, sessions>>
    ELSE IF first_by(suppliers, "supplier_id", data.supplier_id) # {}
    THEN /\ last' = [op |-> "suppliers", role |-> user.role, status |-> "exists", data |-> data]
         /\ UNCHANGED <<tables, call, sessions>>
    ELSE /\ suppliers' = suppliers \cup
                {[id |-> next_id(suppliers), supplier_id |-> data.supplier_id, name |-> data.name]}
         /\ last' = [op |-> "suppliers", role |-> user.role, status |-> "ok", data |-> data]
         /\ UNCHANGED <<customers, collections, sales, withdrawals, call, sessions>>

\* POST /customers
customers_post(user, data) ==
    IF ~role_allowed(user, {"admin", "employee"}) THEN denied("customers", user)
    ELSE IF data.cust_id = "" \/ data.name = ""
    THEN /\ last' = [op |-> "customers", role |-> user.role, status |-> "required", data |-> data]
         /\ UNCHANGED <<tables, call, sessions>>
    ELSE IF first_by(customers, "cust_id", data.cust_id) # {}
    THEN /\ last' = [op |-> "customers", role |-> user.role, status |-> "exists", data |-> data]
         /\ UNCHANGED <<tables, call, sessions>>
    ELSE /\ customers' = customers \cup
                {[id |-> next_id(customers), cust_id |-> data.cust_id, name |-> data.name]}
         /\ last' = [op |-> "customers", role |-> user.role, status |-> "ok", data |-> data]
         /\ UNCHANGED <<suppliers, collections, sales, withdrawals, call, sessions>>

\* the response of an entry or edit request: the form, the date it is entered
\* under and the outcome
entry_response(op, user, data, d, status) ==
    [op |-> op, role |-> user.role, status |-> status, data |-> data, date |-> d]

\* the body shared by add_collection (720-764) and quick_add (776-817), which
\* differ in the names of the form fields and in quick_add storing no note
collection_entry(op, user, data, today, note) ==
    LET found == first_by(suppliers, "supplier_id", data.supplier_id)
        liters == data.liters
        fat == data.fat
        milk_type == data.milk_type
        session == IF data.session = "" THEN "morning" ELSE data.session
        d == IF data.date = NoDate THEN today ELSE data.date
        rate == find_rate(fat, milk_type, d)
        amt == math_floor_mul(liters, rate)
    IN  IF ~role_allowed(user, {"admin", "employee"}) THEN denied(op, user)
        ELSE IF found = {}
        THEN /\ last' = entry_response(op, user, data, d, "supplier_not_found")
             /\ UNCHANGED <<tables, call, sessions>>
        ELSE IF rate = None
        THEN /\ last' = entry_response(op, user, data, d, "rate_not_found")
             /\ UNCHANGED <<tables, call, sessions>>
        ELSE /\ room_for_row
             /\ \E s \in found :
                    collections' = collections \cup
                        {[id |-> next_id(collections),
                          supplier_id |-> s.id,
                          date |-> d,
                          session |-> session,
                          liters |-> liters,
                          fat |-> round_1(fat),
                          milk_type |-> milk_type,
                          rate_per_liter |-> rate,
                          amount |-> amt,
                          note |-> note]}
             /\ last' = entry_response(op, user, data, d, "ok")
             /\ UNCHANGED <<suppliers, customers, sales, withdrawals, call, sessions>>

\* POST /add_collection
add_collection(user, data, today) ==
    collection_entry("add_collection", user, data, today, data.note)

\* POST /quick_add
quick_add(user, data, today) ==
    collection_entry("quick_add", user, data, today, "")

\* POST /add_sale
add_sale(user, data, today) ==
    LET found == first_by(customers, "cust_id", data.cust_id)
        liters == data.liters
        fat == data.fat
        milk_type == data.milk_type
        session == data.session
        d == IF data.date = NoDate THEN today ELSE data.date
        rate == find_rate(fat, milk_type, d)
        amt == math_floor_mul(liters, rate)
    IN  IF ~role_allowed(user, {"admin", "employee"}) THEN denied("add_sale", user)
        ELSE IF found = {}
        THEN /\ last' = entry_response("add_sale", user, data, d, "customer_not_found")
             /\ UNCHANGED <<tables, call, sessions>>
        ELSE IF rate = None
        THEN /\ last' = entry_response("add_sale", user, data, d, "rate_not_found")
             /\ UNCHANGED <<tables, call, sessions>>
        ELSE /\ room_for_row
             /\ \E c \in found :
                    sales' = sales \cup
                        {[id |-> next_id(sales),
                          customer_id |-> c.id,
                          date |-> d,
                          session |-> session,
                          liters |-> liters,
                          fat |-> round_1(fat),
                          milk_type |-> milk_type,
                          rate_per_liter |-> rate,
                          amount |-> amt,
                          note |-> data.note]}
             /\ last' = entry_response("add_sale", user, data, d, "ok")
             /\ UNCHANGED <<suppliers, customers, collections, withdrawals, call, sessions>>

\* the edit with the rate check after the assignments: an unresolved rate is
\* reported, but the submitted liters, fat, milk type, session, date and note
\* are already on the row that the session commits
edit_collection_checked_late(user, cid, data) ==
    LET got == {c \in collections : c.id = cid}
    IN  /\ role_allowed(user, {"admin", "employee"})
        /\ \E entry \in got :
            LET session == IF data.session = "" THEN entry.session ELSE data.session
                date_str == IF data.date = NoDate THEN entry.date ELSE data.date
                rate == find_rate(data.fat, data.milk_type, date_str)
            IN  /\ collections' = (collections \ {entry}) \cup
                        {[id |-> entry.id,
                          supplier_id |-> entry.supplier_id,
                          date |-> date_str,
                          session |-> session,
                          liters |-> data.liters,
                          fat |-> round_1(data.fat),
                          milk_type |-> data.milk_type,
                          rate_per_liter |-> IF rate = None THEN entry.rate_per_liter ELSE rate,
                          amount |-> IF rate = None THEN entry.amount
                                     ELSE math_floor_mul(data.liters, rate),
                          note |-> data.note]}
                /\ last' = [op |-> "edit_collection", role |-> user.role,
                            status |-> IF rate = None THEN "rate_not_found" ELSE "ok",
                            cid |-> cid, data |-> data, date |-> date_str]
                /\ UNCHANGED <<suppliers, customers, sales, withdrawals, call, sessions>>

\* POST /edit_collection/<cid>
edit_collection(user, cid, data) ==
    LET got == {c \in collections : c.id = cid}
    IN  IF ~role_allowed(user, {"admin", "employee"}) THEN denied("edit_collection", user)
        ELSE IF got = {}
        THEN /\ last' = [op |-> "edit_collection", role |-> user.role, status |-> "404",
                         cid |-> cid, data |-> data]
             /\ UNCHANGED <<tables, call, sessions>>
        ELSE \E entry \in got :
            LET liters == data.liters
                fat == data.fat
                milk_type == data.milk_type
                session == IF data.session = "" THEN entry.session ELSE data.session
                date_str == IF data.date = NoDate THEN entry.date ELSE data.date
                note == data.note
                rate == find_rate(fat, milk_type, date_str)
            IN  IF rate = None
                THEN /\ last' = [op |-> "edit_collection", role |-> user.role,
                                 status |-> "rate_not_found", cid |-> cid,
                                 data |-> data, date |-> date_str]
                     /\ UNCHANGED <<tables, call, sessions>>
                ELSE /\ collections' = (collections \ {entry}) \cup
                            {[id |-> entry.id,
                              supplier_id |-> entry.supplier_id,
                              date |-> date_str,
                              session |-> session,
                              liters |-> liters,
                              fat |-> round_1(fat),
                              milk_type |-> milk_type,
                              rate_per_liter |-> rate,
                              amount |-> math_floor_mul(liters, rate),
                              note |-> note]}
                     /\ last' = [op |-> "edit_collection", role |-> user.role,
                                 status |-> "ok", cid |-> cid,
                                 data |-> data, date |-> date_str]
                     /\ UNCHANGED <<suppliers, customers, sales, withdrawals, call, sessions>>

\* the loop body with the amount left as it was when the rate is replaced
refreshed_amount_kept(coll, date) ==
    LET old_rate == coll.rate_per_liter
        new_rate == find_rate(coll.fat, coll.milk_type, date)
    IN  IF new_rate # None /\ new_rate # 0 /\ new_rate # old_rate
        THEN [coll EXCEPT !.rate_per_liter = new_rate]
        ELSE coll

\* one pass of the loop of refresh_daily_rates (980-1001) over a collection
refreshed(coll, date) ==
    LET old_rate == coll.rate_per_liter
        new_rate == find_rate(coll.fat, coll.milk_type, date)
    IN  IF new_rate # None /\ new_rate # 0 /\ new_rate # old_rate
        THEN [coll EXCEPT !.rate_per_liter = new_rate,
                          !.amount = math_floor_mul(coll.liters, new_rate)]
        ELSE coll

\* the refresh whose query has no filter on the date: the collections of
\* every date are recalculated at the rates of the date given
refresh_daily_rates_every_date(user, date) ==
    /\ role_allowed(user, {"admin"})
    /\ ~str_lt(date, NEW_RATES_START_DATE)
    /\ collections # {}
    /\ collections' = {refreshed(c, date) : c \in collections}
    /\ last' = [op |-> "refresh_daily_rates", role |-> user.role, status |-> "ok",
                date |-> date,
                updated_count |-> Cardinality({c \in collections : refreshed(c, date) # c})]
    /\ UNCHANGED <<suppliers, customers, sales, withdrawals, call, sessions>>

\* the refresh whose loop stops at the first collection it updates
refresh_daily_rates_first_only(user, date) ==
    LET found == {c \in collections : c.date = date}
        due == {c \in found : refreshed(c, date) # c}
    IN  /\ role_allowed(user, {"admin"})
        /\ ~str_lt(date, NEW_RATES_START_DATE)
        /\ found # {}
        /\ \/ due = {} /\ collections' = collections
           \/ \E c \in due : collections' = (collections \ {c}) \cup {refreshed(c, date)}
        /\ last' = [op |-> "refresh_daily_rates", role |-> user.role, status |-> "ok",
                    date |-> date, updated_count |-> IF due = {} THEN 0 ELSE 1]
        /\ UNCHANGED <<suppliers, customers, sales, withdrawals, call, sessions>>

\* POST /refresh_daily_rates/<date>
refresh_daily_rates(user, date) ==
    LET found == {c \in collections : c.date = date}
        updated_count == Cardinality({c \in found : refreshed(c, date) # c})
    IN  IF ~role_allowed(user, {"admin"}) THEN denied("refresh_daily_rates", user)
        ELSE IF str_lt(date, NEW_RATES_START_DATE)
        THEN /\ last' = [op |-> "refresh_daily_rates", role |-> user.role,
                         status |-> "before_new_rates", date |-> date, updated_count |-> 0]
             /\ UNCHANGED <<tables, call, sessions>>
        ELSE IF found = {}
        THEN /\ last' = [op |-> "refresh_daily_rates", role |-> user.role,
                         status |-> "no_collections", date |-> date, updated_count |-> 0]
             /\ UNCHANGED <<tables, call, sessions>>
        ELSE /\ collections' = (collections \ found) \cup {refreshed(c, date) : c \in found}
             /\ last' = [op |-> "refresh_daily_rates", role |-> user.role,
                         status |-> "ok", date |-> date, updated_count |-> updated_count]
             /\ UNCHANGED <<suppliers, customers, sales, withdrawals, call, sessions>>

\* '2026-02-01', the literal of the migration's two queries
MIGRATION_START_DATE == <<50, 48, 50, 54, 45, 48, 50, 45, 48, 49>>

\* one pass of either loop of the migration (31-47, 67-81) over a row the
\* query selected
migrated(row) ==
    LET old_rate == row.rate_per_liter
        fat_key == round_fat_times_10(row.fat)
        new_rate == IF fat_key \in DOMAIN BUFFALO_RATE_CHART
                    THEN BUFFALO_RATE_CHART[fat_key] ELSE None
    IN  IF new_rate # None /\ new_rate # 0 /\ new_rate # old_rate
        THEN [row EXCEPT !.rate_per_liter = new_rate,
                         !.amount = math_floor_mul(row.liters, new_rate)]
        ELSE row

\* the selection without the test of the date
migration_selected_any_date(rows) == {r \in rows : r.milk_type = "buffalo"}

\* the rows Model.query.filter(date >= '2026-02-01', milk_type == 'buffalo') selects
migration_selected(rows) ==
    {r \in rows : str_ge(r.date, MIGRATION_START_DATE) /\ r.milk_type = "buffalo"}

\* python migrate_2026_rates.py, choice 1
migrate_february_2026_rates ==
    LET cs == migration_selected(collections)
        ss == migration_selected(sales)
        updated_count == Cardinality({c \in cs : migrated(c) # c})
        sales_updated == Cardinality({s \in ss : migrated(s) # s})
    IN  /\ collections' = (collections \ cs) \cup {migrated(c) : c \in cs}
        /\ sales' = (sales \ ss) \cup {migrated(s) : s \in ss}
        /\ last' = [op |-> "migrate_february_2026_rates", role |-> "script",
                    status |-> "ok", updated |-> updated_count + sales_updated]
        /\ UNCHANGED <<suppliers, customers, withdrawals, call, sessions>>

-----------------------------------------------------------------------------
(* Withdrawals and the balance reports (src/app.py 589-664, 1107-1127,     *)
(* 1194-1232)                                                              *)

\* most rows the withdrawals table is let grow to
MaxWithdrawals == 51

\* the withdrawal recorded without the test of the supplier lookup: a
\* supplier_id_w that matches nothing is stored with no supplier
add_withdrawal_unchecked(user, data, today) ==
    LET found == first_by(suppliers, "supplier_id", data.supplier_id_w)
        owner == IF found = {} THEN {None} ELSE {s.id : s \in found}
        d == IF data.date_w = NoDate THEN today ELSE data.date_w
    IN  IF ~role_allowed(user, {"admin"}) THEN denied("add_withdrawal", user)
        ELSE /\ Cardinality(withdrawals) < MaxWithdrawals
             /\ \E sid \in owner :
                    withdrawals' = withdrawals \cup
                        {[id |-> next_id(withdrawals), supplier_id |-> sid,
                          date |-> d, amount |-> data.amount_w, note |-> data.note_w]}
             /\ last' = [op |-> "add_withdrawal", role |-> user.role,
                         status |-> "ok", data |-> data]
             /\ UNCHANGED <<suppliers, customers, collections, sales, call, sessions>>

\* POST /add_withdrawal
add_withdrawal(user, data, today) ==
    LET found == first_by(suppliers, "supplier_id", data.supplier_id_w)
        amt == data.amount_w
        d == IF data.date_w = NoDate THEN today ELSE data.date_w
    IN  IF ~role_allowed(user, {"admin"}) THEN denied("add_withdrawal", user)
        ELSE IF found = {}
        THEN /\ last' = [op |-> "add_withdrawal", role |-> user.role,
                         status |-> "supplier_not_found", data |-> data]
             /\ UNCHANGED <<tables, call, sessions>>
        ELSE /\ Cardinality(withdrawals) < MaxWithdrawals
             /\ \E s \in found :
                    withdrawals' = withdrawals \cup
                        {[id |-> next_id(withdrawals), supplier_id |-> s.id,
                          date |-> d, amount |-> amt, note |-> data.note_w]}
             /\ last' = [op |-> "add_withdrawal", role |-> user.role,
                         status |-> "ok", data |-> data]
             /\ UNCHANGED <<suppliers, customers, collections, sales, call, sessions>>

\* POST /edit_withdrawal/<wid>; the redirect after the commit reads
\* w.supplier.supplier_id, and w.supplier is None when no supplier has the id
\* the row holds
edit_withdrawal(user, wid, data) ==
    LET got == {w \in withdrawals : w.id = wid}
    IN  IF ~role_allowed(user, {"admin"}) THEN denied("edit_withdrawal", user)
        ELSE IF got = {}
        THEN /\ last' = [op |-> "edit_withdrawal", role |-> user.role, status |-> "404",
                         wid |-> wid, data |-> data]
             /\ UNCHANGED <<tables, call, sessions>>
        ELSE \E w \in got :
            /\ withdrawals' = (withdrawals \ {w}) \cup
                   {[id |-> w.id,
                     supplier_id |-> w.supplier_id,
                     amount |-> data.amount,
                     date |-> IF data.date = NoDate THEN w.date ELSE data.date,
                     note |-> IF data.note = "" THEN w.note ELSE data.note]}
            /\ last' = [op |-> "edit_withdrawal", role |-> user.role,
                        status |-> IF \E s \in suppliers : s.id = w.supplier_id
                                   THEN "ok" ELSE "attribute_error",
                        wid |-> wid, data |-> data]
            /\ UNCHANGED <<suppliers, customers, collections, sales, call, sessions>>

\* .limit(200) of the collections query and .limit(50) of the withdrawals query
COLLECTIONS_LIMIT == 200

WITHDRAWALS_LIMIT == 50

RECURSIVE k_subsets(_, _)
\* the subsets of S with k elements
k_subsets(S, k) ==
    IF k = 0 THEN {{}}
    ELSE IF Cardinality(S) < k THEN {}
    ELSE LET x == CHOOSE y \in S : TRUE
         IN  {D \cup {x} : D \in k_subsets(S \ {x}, k - 1)} \cup k_subsets(S \ {x}, k)

\* query.order_by(date.desc()).limit(n).all(): the n newest rows by date.  The
\* rows newer than the date at which the limit cuts are all returned; among
\* the rows of that date the database returns as many as still fit, whichever
\* it likes, so this is the set of the results it may return.
newest_by_date(rows, n) ==
    IF Cardinality(rows) <= n THEN {rows}
    ELSE LET newer(r) == {x \in rows : str_lt(r.date, x.date)}
             same(r) == {x \in rows : x.date = r.date}
             cut == CHOOSE r \in rows :
                        /\ Cardinality(newer(r)) < n
                        /\ Cardinality(newer(r)) + Cardinality(same(r)) >= n
             sure == newer(cut)
             ties == same(cut)
             m == n - Cardinality(sure)
         IN  IF 2 * m <= Cardinality(ties)
             THEN {sure \cup T : T \in k_subsets(ties, m)}
             ELSE {sure \cup (ties \ D) : D \in k_subsets(ties, Cardinality(ties) - m)}

\* total_amount - total_withdrawn, forced to zero when it is negative
view_totals_clamped(cols, wds) ==
    LET total_amount == SumOver(cols, "amount")
        total_withdrawn == SumOver(wds, "amount")
    IN  [total_liters |-> SumOver(cols, "liters"),
         total_amount |-> total_amount,
         total_withdrawn |-> total_withdrawn,
         balance |-> IF total_amount < total_withdrawn THEN 0
                     ELSE total_amount - total_withdrawn]

\* lines 606-609: the totals of the rows loaded and their balance
view_totals(cols, wds) ==
    LET total_amount == SumOver(cols, "amount")
        total_withdrawn == SumOver(wds, "amount")
    IN  [total_liters |-> SumOver(cols, "liters"),
         total_amount |-> total_amount,
         total_withdrawn |-> total_withdrawn,
         balance |-> total_amount - total_withdrawn]

\* GET /supplier/<supplier_id> without a month parameter: the response holds
\* the number of rows loaded and the totals handed to the template
supplier_view(user, supplier_id) ==
    LET found == first_by(suppliers, "supplier_id", supplier_id)
    IN  IF found = {}
        THEN /\ last' = [op |-> "supplier_view", role |-> user.role, status |-> "404",
                         supplier_id |-> supplier_id]
             /\ UNCHANGED <<tables, call, sessions>>
        ELSE \E s \in found :
            IF user.role = "supplier" /\ (user.supplier = 0 \/ user.supplier # s.id)
            THEN /\ last' = [op |-> "supplier_view", role |-> user.role,
                             linked |-> user.supplier,
                             status |-> "denied", supplier_id |-> supplier_id]
                 /\ UNCHANGED <<tables, call, sessions>>
            ELSE \E cols \in newest_by_date({c \in collections : c.supplier_id = s.id},
                                            COLLECTIONS_LIMIT),
                    wds \in newest_by_date({w \in withdrawals : w.supplier_id = s.id},
                                           WITHDRAWALS_LIMIT) :
                    /\ last' = [op |-> "supplier_view", role |-> user.role,
                                linked |-> user.supplier, status |-> "ok",
                                supplier_id |-> supplier_id,
                                supplier |-> s.id,
                                loaded |-> <<Cardinality(cols), Cardinality(wds)>>,
                                totals |-> view_totals(cols, wds)]
                    /\ UNCHANGED <<tables, call, sessions>>

\* Model.date.like(month + '%')
in_month(rows, month) == {r \in rows : startswith(r.date, month)}

\* lines 1201-1230: one row of supplier_data; the sums are those of the two
\* outer joins grouped by supplier, zero for a supplier with no row
monthly_row(s, month) ==
    LET total_liters == SumOver(in_month({c \in collections : c.supplier_id = s.id}, month), "liters")
        total_amount == SumOver(in_month({c \in collections : c.supplier_id = s.id}, month), "amount")
        withdrawn == SumOver(in_month({w \in withdrawals : w.supplier_id = s.id}, month), "amount")
        balance == total_amount - withdrawn
    IN  [supplier_id |-> s.supplier_id,
         name |-> s.name,
         total_liters |-> total_liters,
         total_amount |-> total_amount,
         withdrawn |-> withdrawn,
         balance |-> balance]

\* GET /monthly?month=<month>: the supplier part of the report
monthly(user, month) ==
    /\ last' = [op |-> "monthly", role |-> user.role, status |-> "ok", month |-> month,
                supplier_data |-> {monthly_row(s, month) : s \in suppliers}]
    /\ UNCHANGED <<tables, call, sessions>>

-----------------------------------------------------------------------------
(* The requests the application is driven with                             *)

Admin == [role |-> "admin", supplier |-> 0]

Employee == [role |-> "employee", supplier |-> 0]

SupplierUser == [role |-> "supplier", supplier |-> 1]

Users == {Admin, SupplierUser}

\* what get_today_ist() may return
Clock == {iso(2026, 1, 31), iso(2026, 3, 1)}

\* the clock readings that matter to a form: any, when the form has no date
TodayFor(data) == IF data.date = NoDate THEN Clock ELSE {iso(2026, 3, 1)}

SupplierForms == {[supplier_id |-> "1", name |-> "Asha"], [supplier_id |-> "", name |-> "Ravi"]}

CustomerForms == {[cust_id |-> "7", name |-> "Dairy"], [cust_id |-> "7", name |-> ""]}

CollectionForm(supplier_id, liters, fat, milk_type, session, date, note) ==
    [supplier_id |-> supplier_id, liters |-> liters, fat |-> fat,
     milk_type |-> milk_type, session |-> session, date |-> date, note |-> note]

SaleForm(cust_id, liters, fat, milk_type, session, date, note) ==
    [cust_id |-> cust_id, liters |-> liters, fat |-> fat,
     milk_type |-> milk_type, session |-> session, date |-> date, note |-> note]

EditForm(liters, fat, milk_type, session, date, note) ==
    [liters |-> liters, fat |-> fat,
     milk_type |-> milk_type, session |-> session, date |-> date, note |-> note]

\* the forms submitted to add_collection and quick_add
EntryForms ==
    {CollectionForm("1", 1000, 650, "buffalo", "evening", iso(2026, 3, 1), ""),
     CollectionForm("1", 1000, 494, "buffalo", "morning", iso(2026, 3, 1), ""),
     CollectionForm("1", 205, 535, "buffalo", "", iso(2026, 3, 1), ""),
     CollectionForm("1", 735, 350, "cow", "evening", NoDate, ""),
     CollectionForm("9", 1000, 650, "buffalo", "morning", iso(2026, 3, 1), "")}

\* the forms submitted to add_sale
SaleForms ==
    {SaleForm("7", 1000, 545, "buffalo", "evening", iso(2026, 2, 1), ""),
     SaleForm("7", 1000, 1005, "buffalo", "morning", iso(2025, 12, 1), ""),
     SaleForm("7", 735, 295, "cow", "morning", iso(2025, 12, 1), ""),
     SaleForm("8", 735, 350, "cow", "morning", iso(2025, 12, 1), "")}

\* the forms submitted to edit_collection
EditForms ==
    {EditForm(735, 600, "buffalo", "", NoDate, "checked"),
     EditForm(735, 494, "buffalo", "evening", iso(2026, 3, 1), ""),
     EditForm(205, 750, "buffalo", "evening", iso(2026, 2, 1), "")}

RefreshDates == {iso(2025, 12, 1), iso(2026, 3, 1)}

Next ==
    \/ \E user \in Users, data \in SupplierForms : suppliers_post(user, data)
    \/ \E user \in Users, data \in CustomerForms : customers_post(user, data)
    \/ \E user \in Users, data \in EntryForms : \E today \in TodayFor(data) :
           add_collection(user, data, today)
    \/ \E user \in Users, data \in EntryForms : \E today \in TodayFor(data) :
           quick_add(user, data, today)
    \/ \E user \in Users, data \in SaleForms : \E today \in TodayFor(data) :
           add_sale(user, data, today)
    \/ \E user \in Users, cid \in 1..(MaxRows + 1), data \in EditForms :
           edit_collection(user, cid, data)
    \/ \E user \in Users, date \in RefreshDates : refresh_daily_rates(user, date)
    \/ migrate_february_2026_rates

Spec == Init /\ [][Next]_vars

-----------------------------------------------------------------------------
(* Claims about the stored records, checked under Spec                     *)

Transactions == collections \cup sales

\* C1: in every state reached by add_collection, quick_add, add_sale,
\* edit_collection, refresh_daily_rates and migrate_february_2026_rates every
\* stored Collection and Sale satisfies amount == floor(liters * rate_per_liter),
\* the product and the floor being the program's own (math.floor of the double).
C1_AmountIsFloorOfProduct ==
    \A r \in Transactions : r.amount = math_floor_mul(r.liters, r.rate_per_liter)

\* C1 witness: a collection edited to 7.35 liters at the rate 48.0 holds 352,
\* next to a row whose rate a refresh or the migration has replaced
C1_Witness ==
    /\ \E c \in collections : c.liters = 735 /\ c.rate_per_liter = 4800 /\ c.amount = 352
    /\ \E c \in collections : c.liters = 205 /\ c.rate_per_liter = 4240 /\ c.amount = 86

\* C4 as claimed: every stored Collection and Sale has the rate find_rate gives
\* for its own stored fat, milk type and date.
C4_RateMatchesStoredFields ==
    \A r \in Transactions : r.rate_per_liter = find_rate(r.fat, r.milk_type, r.date)

\* the request handled last was an entry or an edit whose rate lookup was reached
RateLookedUp(resp) ==
    /\ resp.op \in {"add_collection", "quick_add", "add_sale", "edit_collection"}
    /\ resp.status \in {"ok", "rate_not_found"}

\* C5: a request to add_collection, quick_add, add_sale or edit_collection
\* whose (fat, milk_type, date) find_rate does not resolve leaves the stored
\* collections and sales exactly as they were.
C5_UnresolvedRateChangesNothing ==
    [][(RateLookedUp(last')
          /\ find_rate(last'.data.fat, last'.data.milk_type, last'.date) = None)
        => (collections' = collections /\ sales' = sales)]_vars

\* C5 witness: an edit with fat 4.94 was rejected while the row it names is stored
C5_Witness ==
    /\ last.op = "edit_collection"
    /\ last.status = "rate_not_found"
    /\ last.data.fat = 494
    /\ \E c \in collections : c.id = last.cid

-----------------------------------------------------------------------------
(* The payment-cycle aggregator called on its own                          *)

\* longest list of transactions the aggregator is called with
MaxTxns == 3

Txn(date, session, liters, amount) ==
    [date |-> date, session |-> session, liters |-> liters, amount |-> amount]

\* the transactions the lists are drawn from, among them February 30th, a
\* day 00, a day 'xx' and a date '2026-02' with no day; the amounts are
\* distinct powers of two, so that a total tells which transactions it counts
CycleTxns ==
    {Txn(iso(2026, 2, 1), "morning", 250, 1),
     Txn(iso(2026, 2, 15), "evening", 500, 2),
     Txn(iso(2026, 2, 16), "morning", 1000, 4),
     Txn(iso(2026, 2, 28), "evening", 2000, 8),
     Txn(iso(2026, 2, 30), "morning", 735, 16),
     Txn(iso(2026, 2, 0), "", 205, 32),
     Txn(month_str_of(2026, 2) \o <<Dash>> \o LettersXX, "evening", 100, 64),
     Txn(month_str_of(2026, 2), "morning", 100, 128),
     Txn(iso(2026, 3, 31), "evening", 100, 256),
     Txn(iso(2024, 2, 29), "morning", 100, 512),
     Txn(iso(2025, 12, 16), "evening", 100, 1024)}

CycleMonths == {<<2026, 2>>, <<2026, 3>>, <<2024, 2>>, <<2025, 12>>}

TxnLists == UNION {[1..n -> CycleTxns] : n \in 0..MaxTxns}

InitCycles ==
    /\ suppliers = {}
    /\ customers = {}
    /\ collections = {}
    /\ sales = {}
    /\ withdrawals = {}
    /\ last = NoRequest
    /\ sessions = NoSessions
    /\ \E colls \in TxnLists, ym \in CycleMonths :
           call = [fn |-> "calculate_payment_cycles", done |-> FALSE,
                   collections |-> colls, year |-> ym[1], month |-> ym[2]]

\* calculate_payment_cycles returns
call_calculate_payment_cycles ==
    /\ call.fn = "calculate_payment_cycles"
    /\ ~call.done
    /\ call' = [fn |-> "calculate_payment_cycles", done |-> TRUE,
                collections |-> call.collections, year |-> call.year, month |-> call.month,
                result |-> calculate_payment_cycles(call.collections, call.year, call.month)]
    /\ UNCHANGED <<tables, last, sessions>>

NextCycles == call_calculate_payment_cycles

SpecCycles == InitCycles /\ [][NextCycles]_vars

-----------------------------------------------------------------------------
(* Claims about the payment-cycle aggregator, checked under SpecCycles     *)

CyclesReturned == call.fn = "calculate_payment_cycles" /\ call.done

\* the positions of the list whose date begins with the month asked for
InMonth == {i \in 1..Len(call.collections) :
                startswith(call.collections[i].date, month_str_of(call.year, call.month))}

\* the date has a third dash-separated part and that part is a number
DayParses(t) ==
    /\ Len(split_dash(t.date)) >= 3
    /\ int_ok(split_dash(t.date)[3])

DayNumber(t) == int_of(split_dash(t.date)[3])

RECURSIVE AmountAt(_)
\* the sum of the amounts at a set of positions of the list
AmountAt(positions) ==
    IF positions = {} THEN 0
    ELSE LET i == CHOOSE j \in positions : TRUE
         IN  call.collections[i].amount + AmountAt(positions \ {i})

CountIn(cycle) == cycle.morning.count + cycle.evening.count

\* C6 as claimed: the two cycle totals add up to the amounts of all the
\* transactions of the month.
C6_TotalsCoverMonth ==
    CyclesReturned =>
        call.result.cycle_1.total_amount + call.result.cycle_2.total_amount
            = AmountAt(InMonth)

\* C6 amended: every transaction of the month whose day component parses as a
\* number is counted in exactly one of cycle_1 and cycle_2, and no transaction
\* of another month and none whose day does not parse is counted: the two
\* totals add up to the amounts, and the four counts to the number, of the
\* transactions of the month with a numeric day.
C6_TotalsCoverParsedMonth ==
    CyclesReturned =>
        LET counted == {i \in InMonth : DayParses(call.collections[i])}
        IN  /\ call.result.cycle_1.total_amount + call.result.cycle_2.total_amount
                   = AmountAt(counted)
            /\ CountIn(call.result.cycle_1) + CountIn(call.result.cycle_2)
                   = Cardinality(counted)

\* C6 witness: February 2026 over a list with the 1st, the 16th and a day
\* 'xx': the 1st is in cycle_1, the 16th in cycle_2, the third in neither
C6_Witness ==
    /\ CyclesReturned
    /\ call.year = 2026 /\ call.month = 2
    /\ Len(call.collections) = 3
    /\ {call.collections[i].amount : i \in 1..3} = {1, 4, 64}
    /\ call.result.cycle_1.total_amount = 1
    /\ call.result.cycle_2.total_amount = 4

\* C10 as claimed: a transaction accumulated into cycle_1 has a day from 1 to
\* 15 and one accumulated into cycle_2 a day from 16 to the last day of the
\* month, and lies between the start and end the cycle reports.
C10_AccumulatedInsideWindow ==
    CyclesReturned =>
        \A i \in InMonth :
            LET t == call.collections[i]
                which == cycle_of(t)
                last_day == get_last_day_of_month(call.year, call.month)
            IN  /\ which = "cycle_1" =>
                       /\ 1 <= DayNumber(t) /\ DayNumber(t) <= 15
                       /\ str_ge(t.date, call.result.cycle_1.start)
                       /\ str_ge(call.result.cycle_1.end, t.date)
                /\ which = "cycle_2" =>
                       /\ 16 <= DayNumber(t) /\ DayNumber(t) <= last_day
                       /\ str_ge(t.date, call.result.cycle_2.start)
                       /\ str_ge(call.result.cycle_2.end, t.date)

RECURSIVE FieldAt(_, _)
\* the sum of a field at a set of positions of the list
FieldAt(positions, field) ==
    IF positions = {} THEN 0
    ELSE LET i == CHOOSE j \in positions : TRUE
         IN  call.collections[i][field] + FieldAt(positions \ {i}, field)

\* the positions of the month with a numeric day that fall to a cycle and a
\* session of it: days 1..15 to cycle_1 and the others to cycle_2, session
\* 'morning' to morning and the others to evening
WellFormedIn(cycle, slot) ==
    {i \in InMonth :
        LET t == call.collections[i]
        IN  /\ DayParses(t)
            /\ (cycle = "cycle_1") = (1 <= DayNumber(t) /\ DayNumber(t) <= 15)
            /\ (slot = "morning") = (t.session = "morning")}

\* C12: a transaction of the month whose day component is missing or not a
\* number adds nothing to any liters, amount or count field, and every other
\* transaction of the list is aggregated wherever it stands in the list: each
\* session's liters, amount and count, and each cycle's totals, are those of
\* the transactions with a numeric day alone.
C12_MalformedDaySkippedAlone ==
    CyclesReturned =>
        \A cycle \in {"cycle_1", "cycle_2"} :
            /\ \A slot \in {"morning", "evening"} :
                   /\ call.result[cycle][slot].count = Cardinality(WellFormedIn(cycle, slot))
                   /\ call.result[cycle][slot].amount = FieldAt(WellFormedIn(cycle, slot), "amount")
                   /\ call.result[cycle][slot].liters = FieldAt(WellFormedIn(cycle, slot), "liters")
            /\ call.result[cycle].total_amount =
                   FieldAt(WellFormedIn(cycle, "morning") \cup WellFormedIn(cycle, "evening"), "amount")
            /\ call.result[cycle].total_liters =
                   FieldAt(WellFormedIn(cycle, "morning") \cup WellFormedIn(cycle, "evening"), "liters")

\* C12 witness: February 2026 over the 1st, then a day 'xx', then the 16th:
\* the 'xx' is in no total and the 16th after it is in cycle_2
C12_Witness ==
    /\ CyclesReturned
    /\ call.year = 2026 /\ call.month = 2
    /\ Len(call.collections) = 3
    /\ call.collections[1].date = iso(2026, 2, 1)
    /\ ~DayParses(call.collections[2])
    /\ call.collections[2].amount = 64
    /\ call.collections[3].date = iso(2026, 2, 16)
    /\ call.result.cycle_1.total_amount = 1
    /\ call.result.cycle_2.total_amount = 4
    /\ call.result.cycle_2.morning.count = 1

-----------------------------------------------------------------------------
(* The balance reports driven on their own: one supplier, one collection   *)
(* form worth 10000 and one withdrawal form of 12000                       *)

BalanceCollectionForms ==
    {CollectionForm("1", 25000, 500, "buffalo", "morning", iso(2026, 3, 1), "")}

WithdrawalForm(supplier_id_w, amount_w, date_w, note_w) ==
    [supplier_id_w |-> supplier_id_w, amount_w |-> amount_w, date_w |-> date_w,
     note_w |-> note_w]

WithdrawalForms ==
    {WithdrawalForm("1", 12000, iso(2026, 3, 5), ""),
     WithdrawalForm("9", 12000, iso(2026, 3, 5), "")}

BalanceSupplierForms == {[supplier_id |-> "1", name |-> "Asha"]}

ReportMonths == {month_str_of(2026, 3), month_str_of(2026, 2)}

NextBalance ==
    \/ \E data \in BalanceSupplierForms : suppliers_post(Admin, data)
    \/ \E data \in BalanceCollectionForms : add_collection(Admin, data, iso(2026, 3, 1))
    \/ \E user \in Users, data \in WithdrawalForms : add_withdrawal(user, data, iso(2026, 3, 1))
    \/ \E user \in Users, supplier_id \in {"1", "9"} : supplier_view(user, supplier_id)
    \/ \E month \in ReportMonths : monthly(Admin, month)

SpecBalance == Init /\ [][NextBalance]_vars

-----------------------------------------------------------------------------
(* Claims about balances, checked under SpecBalance                        *)

\* the rows of a table that belong to the supplier with primary key pk
StoredFor(rows, pk) == {r \in rows : r.supplier_id = pk}

\* the supplier page was rendered by the request handled last
ViewRendered == last.op = "supplier_view" /\ last.status = "ok"

\* C7 as claimed: the balance supplier_view reports is the sum of the amounts
\* of all the supplier's stored collections minus the sum of the amounts of
\* all the supplier's stored withdrawals, however many there are.
C7_BalanceOverAllRecords ==
    ViewRendered =>
        last.totals.balance =
            SumOver(StoredFor(collections, last.supplier), "amount")
            - SumOver(StoredFor(withdrawals, last.supplier), "amount")

\* the rows of supplier s stored with a date of the month
StoredInMonth(rows, s, month) ==
    {r \in StoredFor(rows, s.id) :
        Len(r.date) >= Len(month) /\ SubSeq(r.date, 1, Len(month)) = month}

\* C8: the balance reported is total collected amount minus total withdrawn
\* amount as a signed integer, never clamped at zero: on the supplier page it
\* is the difference of the two totals shown, negative whenever more was
\* withdrawn than collected, and the difference of the stored sums when every
\* row was loaded; in the monthly report each supplier's balance is the
\* difference of the supplier's stored in-month sums.
C8_BalanceSignedExact ==
    /\ ViewRendered =>
        /\ last.totals.balance = last.totals.total_amount - last.totals.total_withdrawn
        /\ last.totals.total_withdrawn > last.totals.total_amount => last.totals.balance < 0
        /\ last.loaded = <<Cardinality(StoredFor(collections, last.supplier)),
                           Cardinality(StoredFor(withdrawals, last.supplier))>>
           => last.totals.balance =
                  SumOver(StoredFor(collections, last.supplier), "amount")
                  - SumOver(StoredFor(withdrawals, last.supplier), "amount")
    /\ last.op = "monthly" =>
        \A s \in suppliers :
            \E row \in last.supplier_data :
                /\ row.supplier_id = s.supplier_id
                /\ row.balance =
                       SumOver(StoredInMonth(collections, s, last.month), "amount")
                       - SumOver(StoredInMonth(withdrawals, s, last.month), "amount")

\* C8 witness: the supplier page shows 10000 collected, 12000 withdrawn and
\* the balance -2000
C8_Witness ==
    /\ ViewRendered
    /\ last.totals.total_amount = 10000
    /\ last.totals.total_withdrawn = 12000
    /\ last.totals.balance = -2000

-----------------------------------------------------------------------------
(* The aggregator called over the calendar: every month of common years,   *)
(* leap years and century years, with one transaction late in the month    *)

CalendarYears == {1900, 2000, 2023, 2024, 2026, 2100}

CalendarMonths == 1..12

\* the days a transaction is dated on; days past the end of the month among
\* them, as the date column is free text
CalendarDays == {16, 28, 29, 30, 31}

InitCalendar ==
    /\ suppliers = {}
    /\ customers = {}
    /\ collections = {}
    /\ sales = {}
    /\ withdrawals = {}
    /\ last = NoRequest
    /\ sessions = NoSessions
    /\ \E year \in CalendarYears, month \in CalendarMonths, day \in CalendarDays :
           call = [fn |-> "calculate_payment_cycles", done |-> FALSE,
                   collections |-> <<Txn(iso(year, month, day), "morning", 1000, 520)>>,
                   year |-> year, month |-> month]

SpecCalendar == InitCalendar /\ [][NextCycles]_vars

\* the year is a leap year of the Gregorian calendar
LeapYear(year) == year % 400 = 0 \/ (year % 4 = 0 /\ year % 100 # 0)

\* the number of days of each month of a common year
CommonYearDays == <<31, 28, 31, 30, 31, 30, 31, 31, 30, 31, 30, 31>>

\* the calendar's last day of the month
CalendarLastDay(year, month) ==
    IF month = 2 /\ LeapYear(year) THEN 29 ELSE CommonYearDays[month]

\* C11: for February cycle_2 is reported to end on day 28 in a common year
\* and on day 29 in a leap year (century years leap only when divisible by
\* 400), for every other month on the month's 30th or 31st as the calendar
\* has it, and a transaction dated on that last day is counted in cycle_2.
C11_Cycle2EndsOnCalendarLastDay ==
    CyclesReturned =>
        LET last_day == CalendarLastDay(call.year, call.month)
            t == call.collections[1]
        IN  /\ call.result.cycle_2.end = iso(call.year, call.month, last_day)
            /\ call.month = 2 => last_day = IF LeapYear(call.year) THEN 29 ELSE 28
            /\ call.month # 2 => last_day \in {30, 31}
            /\ t.date = call.result.cycle_2.end =>
                   /\ CountIn(call.result.cycle_2) = 1
                   /\ call.result.cycle_2.total_amount = t.amount
                   /\ call.result.cycle_2.total_liters = t.liters
                   /\ CountIn(call.result.cycle_1) = 0

\* C11 witness: February 1900, a century year that is no leap year, with a
\* transaction on the 28th: cycle_2 ends on 1900-02-28 and counts it
C11_Witness ==
    /\ CyclesReturned
    /\ call.year = 1900 /\ call.month = 2
    /\ call.collections[1].date = iso(1900, 2, 28)
    /\ call.result.cycle_2.end = iso(1900, 2, 28)
    /\ call.result.cycle_2.total_amount = 520

-----------------------------------------------------------------------------
(* The aggregator called twice in a row on the same list                   *)

\* the cycles dictionary kept from the call before, when there was one
cycles_at_entry_carried(earlier, year, month) ==
    IF earlier = <<>> THEN initial_cycles(year, month) ELSE earlier[Len(earlier)]

\* lines 113-130: cycles is a local name bound to a new dictionary on every
\* call, whatever the calls before (earlier: their results) have returned
cycles_at_entry(earlier, year, month) == initial_cycles(year, month)

\* a call of calculate_payment_cycles made after the calls that returned earlier
calculate_payment_cycles_after(earlier, colls, year, month) ==
    LET month_str == month_str_of(year, month)
        monthly_collections == SelectSeq(colls, LAMBDA c : startswith(c.date, month_str))
    IN  process_collections(cycles_at_entry(earlier, year, month), monthly_collections)

\* the caller holds a list (given: a copy of it as it was) and a month
InitRepeat ==
    /\ suppliers = {}
    /\ customers = {}
    /\ collections = {}
    /\ sales = {}
    /\ withdrawals = {}
    /\ last = NoRequest
    /\ sessions = NoSessions
    /\ \E colls \in TxnLists, ym \in CycleMonths :
           call = [fn |-> "calculate_payment_cycles", done |-> FALSE,
                   given |-> colls, collections |-> colls,
                   year |-> ym[1], month |-> ym[2], results |-> <<>>]

\* one more call on the caller's list: the function reads the list and the
\* date, session, liters and amount of its elements and assigns to none of them
call_calculate_payment_cycles_again ==
    /\ call.fn = "calculate_payment_cycles"
    /\ Len(call.results) < 2
    /\ call' = [call EXCEPT
                   !.done = TRUE,
                   !.results = Append(@, calculate_payment_cycles_after(
                                             call.results, call.collections,
                                             call.year, call.month))]
    /\ UNCHANGED <<tables, last, sessions>>

NextRepeat == call_calculate_payment_cycles_again

SpecRepeat == InitRepeat /\ [][NextRepeat]_vars

-----------------------------------------------------------------------------
(* The entry desk: users of all four roles submitting entries, edits and   *)
(* withdrawals, among them forms with liters missing, zero or negative and *)
(* forms naming a supplier or customer that is not stored                  *)

CustomerUser == [role |-> "customer", supplier |-> 0]

DeskUsers == {Admin, Employee, SupplierUser, CustomerUser}

\* most withdrawals the desk records
MaxDeskWithdrawals == 1

\* an absent or empty liters field is float(... or 0) = 0.0
DeskEntryForms ==
    {CollectionForm("1", 1000, 650, "buffalo", "morning", iso(2026, 3, 1), ""),
     CollectionForm("1", 0, 650, "buffalo", "morning", iso(2026, 3, 1), ""),
     CollectionForm("9", 1000, 494, "buffalo", "morning", iso(2026, 3, 1), "")}

DeskQuickForms ==
    {CollectionForm("1", -100, 650, "buffalo", "morning", iso(2026, 3, 1), ""),
     CollectionForm("9", 1000, 650, "buffalo", "morning", iso(2026, 3, 1), "")}

DeskSaleForms ==
    {SaleForm("7", 0, 545, "buffalo", "evening", iso(2026, 3, 1), ""),
     SaleForm("8", 1000, 1005, "buffalo", "evening", iso(2026, 3, 1), "")}

DeskEditForms ==
    {EditForm(-100, 600, "buffalo", "", NoDate, "checked"),
     EditForm(735, 600, "buffalo", "", NoDate, "checked")}

WithdrawalEditForm(amount, date, note) == [amount |-> amount, date |-> date, note |-> note]

DeskWithdrawalEditForms == {WithdrawalEditForm(5000, NoDate, "")}

NextDesk ==
    \/ \E data \in BalanceSupplierForms : suppliers_post(Admin, data)
    \/ \E data \in {[cust_id |-> "7", name |-> "Dairy"]} : customers_post(Admin, data)
    \/ \E user \in DeskUsers, data \in DeskEntryForms :
           add_collection(user, data, iso(2026, 3, 1))
    \/ \E user \in DeskUsers, data \in DeskQuickForms :
           quick_add(user, data, iso(2026, 3, 1))
    \/ \E user \in DeskUsers, data \in DeskSaleForms :
           add_sale(user, data, iso(2026, 3, 1))
    \/ \E user \in DeskUsers, cid \in 1..2, data \in DeskEditForms :
           edit_collection(user, cid, data)
    \/ \E user \in DeskUsers, data \in WithdrawalForms :
           /\ Cardinality(withdrawals) < MaxDeskWithdrawals
           /\ add_withdrawal(user, data, iso(2026, 3, 1))
    \/ \E user \in DeskUsers, wid \in 1..2, data \in DeskWithdrawalEditForms :
           edit_withdrawal(user, wid, data)

SpecDesk == Init /\ [][NextDesk]_vars

\* C14 as claimed: every stored Collection and Sale has liters > 0.
C14_LitersPositive ==
    \A r \in Transactions : r.liters > 0

\* the response is that of an entry request that passed the role check and
\* named a supplier or customer that sup and cust do not hold
ReferentialMiss(resp, sup, cust) ==
    /\ resp.op \in {"add_collection", "quick_add", "add_sale", "add_withdrawal"}
    /\ resp.status # "denied"
    /\ \/ /\ resp.op \in {"add_collection", "quick_add"}
          /\ \A s \in sup : s.supplier_id # resp.data.supplier_id
       \/ /\ resp.op = "add_sale"
          /\ \A c \in cust : c.cust_id # resp.data.cust_id
       \/ /\ resp.op = "add_withdrawal"
          /\ \A s \in sup : s.supplier_id # resp.data.supplier_id_w

\* C15: an add_collection, quick_add, add_sale or add_withdrawal request
\* whose supplier or customer identifier matches no stored supplier or
\* customer is answered "not found", also when its fat would resolve to no
\* rate (the rate is not looked up), and leaves every table as it was.
C15_ReferentialMissChangesNothing ==
    [][ReferentialMiss(last', suppliers, customers)
        => /\ last'.status \in {"supplier_not_found", "customer_not_found"}
           /\ UNCHANGED tables]_vars

\* C15 witness: with supplier '1' stored, an add_collection for supplier '9'
\* with the unresolvable fat 4.94 was answered supplier not found
C15_Witness ==
    /\ last.op = "add_collection"
    /\ last.status = "supplier_not_found"
    /\ last.data.supplier_id = "9"
    /\ last.data.fat = 494
    /\ suppliers # {}

\* C16 as claimed: an edit_collection or edit_withdrawal request made by a
\* user whose role is not admin leaves the collections and withdrawals as
\* they were.
C16_OnlyAdminEdits ==
    [][(last'.op \in {"edit_collection", "edit_withdrawal"} /\ last'.role # "admin")
        => (collections' = collections /\ withdrawals' = withdrawals)]_vars

-----------------------------------------------------------------------------
(* Cow milk and the date, checked under SpecRate                           *)

\* C18: for cow milk the result of find_rate is the same for every date,
\* before or after 2026-02-01 or none: the entry of the one cow table for the
\* nearest tenth of the fat, or None.
C18_CowRateIgnoresDate ==
    (Returned /\ call.milk_type = "cow") =>
        /\ \A d \in RateDates : find_rate(call.fat, "cow", d) = call.result
        /\ call.fat # None => call.chart = "COW_RATE_CHART"
        /\ call.result = IF call.fat # None /\ NearestTenth(call.fat) \in DOMAIN COW_RATE_CHART
                         THEN COW_RATE_CHART[NearestTenth(call.fat)]
                         ELSE None

\* C18 witness: cow milk of fat 3.5 dated 2025-12-01 resolved to 26.45
C18_Witness ==
    /\ Returned
    /\ call.milk_type = "cow"
    /\ call.fat = 350
    /\ call.transaction_date = iso(2025, 12, 1)
    /\ call.result = 2645

-----------------------------------------------------------------------------
(* The end-to-end scenario, checked under Spec                             *)

\* the request answered by resp was add_collection, past the role check, for
\* a supplier stored in sup, with buffalo milk, 10 liters, fat 6.5 and the
\* date 2026-03-01
ScenarioRequest(resp, sup) ==
    /\ resp.op = "add_collection"
    /\ resp.status # "denied"
    /\ \E s \in sup : s.supplier_id = resp.data.supplier_id
    /\ resp.data.milk_type = "buffalo"
    /\ resp.data.liters = 1000
    /\ resp.data.fat = 650
    /\ resp.data.date = iso(2026, 3, 1)

\* C19: add_collection for a stored supplier with buffalo milk, 10 liters,
\* fat 6.5 and the date 2026-03-01 adds exactly one collection, of that
\* supplier, with rate_per_liter 52.0 and amount 520, and changes no other row.
C19_ScenarioPersistsOneCollection ==
    [][ScenarioRequest(last', suppliers)
        => /\ last'.status = "ok"
           /\ \E c \in collections' \ collections :
                  /\ collections' = collections \cup {c}
                  /\ \E s \in suppliers : s.supplier_id = last'.data.supplier_id
                                          /\ c.supplier_id = s.id
                  /\ c.liters = 1000 /\ c.fat = 650 /\ c.milk_type = "buffalo"
                  /\ c.date = iso(2026, 3, 1)
                  /\ c.rate_per_liter = 5200
                  /\ c.amount = 520
           /\ UNCHANGED <<suppliers, customers, sales, withdrawals>>]_vars

\* C19 witness: the scenario's request was the first entry and the one
\* collection stored has the rate 52.0 and the amount 520
C19_Witness ==
    /\ ScenarioRequest(last, suppliers)
    /\ last.status = "ok"
    /\ Cardinality(collections) = 1
    /\ \A c \in collections : c.rate_per_liter = 5200 /\ c.amount = 520

-----------------------------------------------------------------------------
(* Who is shown a supplier's page: two suppliers, and users of every role, *)
(* among them supplier accounts linked to the other supplier and to none   *)

OtherSupplierUser == [role |-> "supplier", supplier |-> 2]

UnlinkedSupplierUser == [role |-> "supplier", supplier |-> 0]

AccessUsers ==
    {Admin, Employee, SupplierUser, OtherSupplierUser, UnlinkedSupplierUser, CustomerUser}

AccessSupplierForms ==
    {[supplier_id |-> "1", name |-> "Asha"], [supplier_id |-> "2", name |-> "Ravi"]}

NextAccess ==
    \/ \E data \in AccessSupplierForms : suppliers_post(Admin, data)
    \/ \E data \in BalanceCollectionForms : add_collection(Employee, data, iso(2026, 3, 1))
    \/ \E data \in WithdrawalForms :
           /\ Cardinality(withdrawals) < MaxDeskWithdrawals
           /\ add_withdrawal(Admin, data, iso(2026, 3, 1))
    \/ \E user \in AccessUsers, supplier_id \in {"1", "2", "9"} :
           supplier_view(user, supplier_id)

SpecAccess == Init /\ [][NextAccess]_vars

\* C20 as claimed: the page of a stored supplier is rendered for an admin, an
\* employee and the supplier account linked to that supplier, and every other
\* user is denied.
C20_PageOnlyForStaffAndOwner ==
    (last.op = "supplier_view" /\ last.status # "404") =>
        IF \/ last.role \in {"admin", "employee"}
           \/ /\ last.role = "supplier"
              /\ \E s \in suppliers : s.supplier_id = last.supplier_id /\ s.id = last.linked
        THEN last.status = "ok"
        ELSE last.status = "denied"

-----------------------------------------------------------------------------
(* Two clients editing at once.  The server handles requests in parallel   *)
(* (app.run at src/app.py 1372 starts the threaded development server),    *)
(* each request with a database session of its own.  A POST to             *)
(* /edit_collection/<cid> is two steps of its session: the load at line    *)
(* 1046, and the assignments and the commit at lines 1064-1074; steps of   *)
(* another request may come between the two.                               *)

\* the columns edit_collection assigns
EditedColumns ==
    {"liters", "fat", "milk_type", "session", "date", "rate_per_liter", "amount", "note"}

\* db.session.commit() of a session that loaded the row as entry and has
\* assigned the values of assigned to it, the row being stored as stored: the
\* session's UPDATE sets the columns whose assigned value differs from the
\* value the session loaded, and leaves every other column as stored
flushed(stored, entry, assigned) ==
    [column \in DOMAIN stored |->
        IF column \in EditedColumns /\ assigned[column] # entry[column]
        THEN assigned[column]
        ELSE stored[column]]

\* line 1046: entry = Collection.query.get_or_404(cid)
edit_collection_load(actor, user, cid) ==
    LET got == {c \in collections : c.id = cid}
    IN  /\ sessions[actor].pc = "idle"
        /\ IF ~role_allowed(user, {"admin", "employee"})
           THEN /\ last' = [op |-> "edit_collection", role |-> user.role, status |-> "denied"]
                /\ UNCHANGED <<tables, call, sessions>>
           ELSE IF got = {}
           THEN /\ last' = [op |-> "edit_collection", role |-> user.role, status |-> "404",
                            actor |-> actor, cid |-> cid]
                /\ UNCHANGED <<tables, call, sessions>>
           ELSE \E entry \in got :
                /\ sessions' = [sessions EXCEPT ![actor] =
                                   [pc |-> "loaded", role |-> user.role, cid |-> cid,
                                    entry |-> entry]]
                /\ UNCHANGED <<tables, last, call>>

\* lines 1051-1074: the form read, the rate resolved, the eight assignments
\* and the commit of a session that has loaded its entry
edit_collection_commit(actor, data) ==
    LET entry == sessions[actor].entry
        liters == data.liters
        fat == data.fat
        milk_type == data.milk_type
        session == IF data.session = "" THEN entry.session ELSE data.session
        date_str == IF data.date = NoDate THEN entry.date ELSE data.date
        note == data.note
        rate == find_rate(fat, milk_type, date_str)
        assigned == [id |-> entry.id,
                     supplier_id |-> entry.supplier_id,
                     date |-> date_str,
                     session |-> session,
                     liters |-> liters,
                     fat |-> round_1(fat),
                     milk_type |-> milk_type,
                     rate_per_liter |-> rate,
                     amount |-> math_floor_mul(liters, rate),
                     note |-> note]
    IN  /\ sessions[actor].pc = "loaded"
        /\ IF rate = None
           THEN /\ last' = [op |-> "edit_collection", role |-> sessions[actor].role,
                            status |-> "rate_not_found", actor |-> actor,
                            cid |-> entry.id, data |-> data, date |-> date_str]
                /\ sessions' = [sessions EXCEPT ![actor] = [pc |-> "done", cid |-> entry.id,
                                                             status |-> "rate_not_found"]]
                /\ UNCHANGED <<tables, call>>
           ELSE /\ collections' =
                       {IF c.id = entry.id THEN flushed(c, entry, assigned) ELSE c :
                            c \in collections}
                /\ last' = [op |-> "edit_collection", role |-> sessions[actor].role,
                            status |-> "ok", actor |-> actor,
                            cid |-> entry.id, data |-> data, date |-> date_str,
                            assigned |-> assigned]
                /\ sessions' = [sessions EXCEPT ![actor] = [pc |-> "done", cid |-> entry.id,
                                                             status |-> "ok"]]
                /\ UNCHANGED <<suppliers, customers, sales, withdrawals, call>>

\* the collection the two clients edit is entered with 10 liters, fat 6.5
ConcurrentEntryForms ==
    {CollectionForm("1", 1000, 650, "buffalo", "morning", iso(2026, 3, 1), "")}

\* one edit doubles the liters, one raises the fat, one cannot be resolved
ConcurrentEditForms ==
    {EditForm(2000, 650, "buffalo", "", NoDate, ""),
     EditForm(1000, 700, "buffalo", "evening", NoDate, "checked"),
     EditForm(1000, 494, "buffalo", "", NoDate, "")}

NextEdits ==
    \/ \E data \in BalanceSupplierForms : suppliers_post(Admin, data)
    \/ \E data \in ConcurrentEntryForms : add_collection(Employee, data, iso(2026, 3, 1))
    \/ \E actor \in Actors, user \in {Admin, Employee, SupplierUser}, cid \in 1..2 :
           edit_collection_load(actor, user, cid)
    \/ \E actor \in Actors, data \in ConcurrentEditForms : edit_collection_commit(actor, data)

SpecEdits == Init /\ [][NextEdits]_vars

\* both clients have committed an edit of the same collection, and the
\* request handled last is the commit of the later one
BothCommitted ==
    /\ \A actor \in Actors : sessions[actor].pc = "done" /\ sessions[actor].status = "ok"
    /\ sessions["a"].cid = sessions["b"].cid
    /\ last.op = "edit_collection" /\ last.status = "ok"

\* C17 as claimed: after both commits the stored record holds exactly the
\* values written by the edit that committed last, liters, fat, milk_type,
\* session, date, rate_per_liter, amount and note, with no field left over
\* from the earlier edit.
C17_LastCommitPrevails ==
    BothCommitted =>
        \A c \in collections :
            c.id = last.cid => \A column \in EditedColumns : c[column] = last.assigned[column]

-----------------------------------------------------------------------------
(* Suppliers edited and deleted, collections and withdrawals deleted       *)
(* (src/app.py 543-587, 1083-1092, 1145-1154)                              *)

\* POST /edit_supplier/<supplier_id>: the name is replaced (mobile and
\* address, which nothing here reads, are left out of the rows)
edit_supplier(user, supplier_id, data) ==
    LET found == first_by(suppliers, "supplier_id", supplier_id)
    IN  IF ~role_allowed(user, {"admin", "employee"}) THEN denied("edit_supplier", user)
        ELSE IF found = {}
        THEN /\ last' = [op |-> "edit_supplier", role |-> user.role, status |-> "404",
                         supplier_id |-> supplier_id]
             /\ UNCHANGED <<tables, call, sessions>>
        ELSE \E supplier \in found :
            /\ suppliers' = (suppliers \ {supplier}) \cup
                   {[id |-> supplier.id, supplier_id |-> supplier.supplier_id,
                     name |-> data.name]}
            /\ last' = [op |-> "edit_supplier", role |-> user.role, status |-> "ok",
                        supplier_id |-> supplier_id]
            /\ UNCHANGED <<customers, collections, sales, withdrawals, call, sessions>>

\* the deletion without the test for collections
delete_supplier_unchecked(user, supplier_id) ==
    LET found == first_by(suppliers, "supplier_id", supplier_id)
    IN  /\ role_allowed(user, {"admin"})
        /\ \E supplier \in found :
            /\ suppliers' = suppliers \ {supplier}
            /\ last' = [op |-> "delete_supplier", role |-> user.role, status |-> "ok",
                        supplier_id |-> supplier_id, supplier |-> supplier.id]
            /\ UNCHANGED <<customers, collections, sales, withdrawals, call, sessions>>

\* POST /delete_supplier/<supplier_id>.  The DELETE of a supplier that
\* withdrawals still reference is carried out by SQLite, the database of line
\* 17 unless DATABASE_URL names another, which does not enforce foreign keys
\* on a connection that has not asked for it; a database that enforces them
\* refuses it, the commit raises and nothing is changed.
delete_supplier(user, supplier_id) ==
    LET found == first_by(suppliers, "supplier_id", supplier_id)
    IN  IF ~role_allowed(user, {"admin"}) THEN denied("delete_supplier", user)
        ELSE IF found = {}
        THEN /\ last' = [op |-> "delete_supplier", role |-> user.role, status |-> "404",
                         supplier_id |-> supplier_id]
             /\ UNCHANGED <<tables, call, sessions>>
        ELSE \E supplier \in found :
            IF \E c \in collections : c.supplier_id = supplier.id
            THEN /\ last' = [op |-> "delete_supplier", role |-> user.role,
                             status |-> "has_collections", supplier_id |-> supplier_id,
                             supplier |-> supplier.id]
                 /\ UNCHANGED <<tables, call, sessions>>
            ELSE \/ /\ suppliers' = suppliers \ {supplier}
                    /\ last' = [op |-> "delete_supplier", role |-> user.role,
                                status |-> "ok", supplier_id |-> supplier_id,
                                supplier |-> supplier.id]
                    /\ UNCHANGED <<customers, collections, sales, withdrawals, call, sessions>>
                 \/ /\ \E w \in withdrawals : w.supplier_id = supplier.id
                    /\ last' = [op |-> "delete_supplier", role |-> user.role,
                                status |-> "integrity_error", supplier_id |-> supplier_id,
                                supplier |-> supplier.id]
                    /\ UNCHANGED <<tables, call, sessions>>

\* POST /delete_collection/<cid>
delete_collection(user, cid) ==
    LET got == {c \in collections : c.id = cid}
    IN  IF ~role_allowed(user, {"admin"}) THEN denied("delete_collection", user)
        ELSE IF got = {}
        THEN /\ last' = [op |-> "delete_collection", role |-> user.role, status |-> "404",
                         cid |-> cid]
             /\ UNCHANGED <<tables, call, sessions>>
        ELSE /\ collections' = collections \ got
             /\ last' = [op |-> "delete_collection", role |-> user.role, status |-> "ok",
                         cid |-> cid]
             /\ UNCHANGED <<suppliers, customers, sales, withdrawals, call, sessions>>

\* POST /delete_withdrawal/<wid>: w.supplier.supplier_id is read before the
\* delete, and w.supplier is None when no supplier has the id the row holds
delete_withdrawal(user, wid) ==
    LET got == {w \in withdrawals : w.id = wid}
    IN  IF ~role_allowed(user, {"admin"}) THEN denied("delete_withdrawal", user)
        ELSE IF got = {}
        THEN /\ last' = [op |-> "delete_withdrawal", role |-> user.role, status |-> "404",
                         wid |-> wid]
             /\ UNCHANGED <<tables, call, sessions>>
        ELSE IF \E w \in got : \A s \in suppliers : s.id # w.supplier_id
        THEN /\ last' = [op |-> "delete_withdrawal", role |-> user.role,
                         status |-> "attribute_error", wid |-> wid]
             /\ UNCHANGED <<tables, call, sessions>>
        ELSE /\ withdrawals' = withdrawals \ got
             /\ last' = [op |-> "delete_withdrawal", role |-> user.role, status |-> "ok",
                         wid |-> wid]
             /\ UNCHANGED <<suppliers, customers, collections, sales, call, sessions>>

\* two suppliers, whose forms can be sent again, and forms with no id and no name
RegisterSupplierForms ==
    {[supplier_id |-> "1", name |-> "Asha"],
     [supplier_id |-> "2", name |-> "Ravi"],
     [supplier_id |-> "", name |-> "Ravi"],
     [supplier_id |-> "2", name |-> ""]}

\* the largest primary key handed out: rows deleted and added again would
\* otherwise take ever larger keys
MaxId == 3

RegisterEditForms == {[name |-> "Ravi"]}

RegisterEntryForms ==
    {CollectionForm("1", 1000, 650, "buffalo", "morning", iso(2026, 3, 1), ""),
     CollectionForm("2", 1000, 650, "buffalo", "morning", iso(2026, 3, 1), "")}

RegisterWithdrawalForms == {WithdrawalForm("1", 12000, iso(2026, 3, 5), "")}

NextRegister ==
    \/ \E data \in RegisterSupplierForms :
           /\ next_id(suppliers) <= MaxId
           /\ suppliers_post(Admin, data)
    \/ \E supplier_id \in {"1", "2"}, data \in RegisterEditForms :
           edit_supplier(Employee, supplier_id, data)
    \/ \E user \in {Admin, Employee}, supplier_id \in {"1", "2"} :
           delete_supplier(user, supplier_id)
    \/ \E data \in RegisterEntryForms :
           /\ next_id(collections) <= MaxId
           /\ add_collection(Employee, data, iso(2026, 3, 1))
    \/ \E data \in {EditForm(735, 600, "buffalo", "", NoDate, "checked")} :
           edit_collection(Admin, 1, data)
    \/ delete_collection(Admin, 1)
    \/ \E data \in RegisterWithdrawalForms :
           /\ Cardinality(withdrawals) < MaxDeskWithdrawals
           /\ next_id(withdrawals) <= MaxId
           /\ add_withdrawal(Admin, data, iso(2026, 3, 1))
    \/ \E data \in DeskWithdrawalEditForms : edit_withdrawal(Admin, 1, data)
    \/ delete_withdrawal(Admin, 1)

SpecRegister == Init /\ [][NextRegister]_vars

\* C21: delete_supplier removes a supplier only when no collection references
\* it and otherwise changes nothing, and every stored collection references a
\* stored supplier.
C21_CollectionsHaveSuppliers ==
    /\ [](\A c \in collections : \E s \in suppliers : s.id = c.supplier_id)
    /\ [][last'.op = "delete_supplier" =>
            /\ \A s \in suppliers \ suppliers' :
                   \A c \in collections : c.supplier_id # s.id
            /\ (last'.status = "has_collections" => UNCHANGED tables)
            /\ collections' = collections]_vars

\* C21 witness: the deletion of a supplier with a collection was refused
\* after another supplier, without collections, had been deleted
C21_Witness ==
    /\ last.op = "delete_supplier"
    /\ last.status = "has_collections"
    /\ Cardinality(suppliers) = 1
    /\ \E c \in collections : c.supplier_id = last.supplier
    /\ \E c \in collections : c.supplier_id = 2

-----------------------------------------------------------------------------
(* What the migration script touches (src/migrate_2026_rates.py 13-102)    *)

\* entries of fat 5.35, stored as 5.3 at the rate of 5.4, on both sides of
\* 2026-02-01 and of both milk types
MigrationEntryForms ==
    {CollectionForm("1", 205, 535, m, "morning", d, "") :
         m \in MilkTypes, d \in {iso(2026, 1, 31), iso(2026, 2, 1)}}

MigrationSaleForms ==
    {SaleForm("7", 205, 535, m, "evening", d, "") :
         m \in MilkTypes, d \in {iso(2026, 1, 31), iso(2026, 2, 1)}}

NextMigration ==
    \/ suppliers_post(Admin, [supplier_id |-> "1", name |-> "Asha"])
    \/ customers_post(Admin, [cust_id |-> "7", name |-> "Dairy"])
    \/ \E data \in MigrationEntryForms : add_collection(Admin, data, iso(2026, 3, 1))
    \/ \E data \in MigrationSaleForms : add_sale(Admin, data, iso(2026, 3, 1))
    \/ migrate_february_2026_rates

SpecMigration == Init /\ [][NextMigration]_vars

\* row after is row before in every field but rate_per_liter and amount
SameButRateAndAmount(before, after) ==
    after = [before EXCEPT !.rate_per_liter = after.rate_per_liter,
                           !.amount = after.amount]

\* the buffalo rows of 2026-02-01 and later whose rate is not the chart's
MigrationDue(rows) ==
    {r \in rows : r.milk_type = "buffalo" /\ str_ge(r.date, iso(2026, 2, 1))
                  /\ migrated(r) # r}

\* the frame of one run of the script over one table: the same rows by id,
\* each the same but for rate and amount, cow rows and rows before
\* 2026-02-01 the same in everything
MigrationFrame(rows, rowsAfter) ==
    /\ {r.id : r \in rowsAfter} = {r.id : r \in rows}
    /\ Cardinality(rowsAfter) = Cardinality(rows)
    /\ \A r \in rows : \E q \in rowsAfter :
           /\ q.id = r.id
           /\ SameButRateAndAmount(r, q)
           /\ (r.milk_type # "buffalo" \/ str_lt(r.date, iso(2026, 2, 1))) => q = r

\* C22: the migration changes only rate_per_liter and amount of buffalo
\* collections and buffalo sales dated 2026-02-01 or later; cow records,
\* earlier records, every other field and every other table stay as they
\* were, and the updates are committed all together or not at all.
C22_MigrationFrame ==
    [][last'.op = "migrate_february_2026_rates" =>
          /\ MigrationFrame(collections, collections')
          /\ MigrationFrame(sales, sales')
          /\ \/ /\ MigrationDue(collections) \cap collections' = {}
                /\ MigrationDue(sales) \cap sales' = {}
             \/ /\ collections' = collections
                /\ sales' = sales
          /\ UNCHANGED <<suppliers, customers, withdrawals>>]_vars

\* C22 witness: a run that updated a record and left alone one, a cow record
\* or a record from before 2026-02-01, whose rate is not the chart's either
C22_Witness ==
    /\ last.op = "migrate_february_2026_rates"
    /\ last.updated > 0
    /\ \E r \in collections \cup sales :
           /\ r.milk_type = "cow" \/ str_lt(r.date, iso(2026, 2, 1))
           /\ migrated(r) # r

-----------------------------------------------------------------------------
(* An edit and a refresh at once.  A POST to /refresh_daily_rates/<date>   *)
(* is two steps of its session: the query of line 980, and the loop and    *)
(* the commit of lines 985-1004.                                           *)

\* lines 960-983: the date tested and the collections of the date loaded
refresh_daily_rates_load(actor, user, date) ==
    LET found == {c \in collections : c.date = date}
    IN  /\ sessions[actor].pc = "idle"
        /\ IF ~role_allowed(user, {"admin"})
           THEN /\ last' = [op |-> "refresh_daily_rates", role |-> user.role,
                            status |-> "denied"]
                /\ UNCHANGED <<tables, call, sessions>>
           ELSE IF str_lt(date, NEW_RATES_START_DATE)
           THEN /\ last' = [op |-> "refresh_daily_rates", role |-> user.role,
                            status |-> "before_new_rates", date |-> date, updated_count |-> 0]
                /\ UNCHANGED <<tables, call, sessions>>
           ELSE IF found = {}
           THEN /\ last' = [op |-> "refresh_daily_rates", role |-> user.role,
                            status |-> "no_collections", date |-> date, updated_count |-> 0]
                /\ UNCHANGED <<tables, call, sessions>>
           ELSE /\ sessions' = [sessions EXCEPT ![actor] =
                                   [pc |-> "selected", role |-> user.role, date |-> date,
                                    found |-> found]]
                /\ UNCHANGED <<tables, last, call>>

\* lines 985-1004: rate_per_liter and amount assigned to the loaded
\* collections whose rate differs, and the commit when any was assigned
refresh_daily_rates_commit(actor) ==
    LET found == sessions[actor].found
        date == sessions[actor].date
        updated == {c \in found : refreshed(c, date) # c}
        loaded(c) == CHOOSE entry \in found : entry.id = c.id
    IN  /\ sessions[actor].pc = "selected"
        /\ collections' =
               {IF \E entry \in updated : entry.id = c.id
                THEN flushed(c, loaded(c), refreshed(loaded(c), date))
                ELSE c : c \in collections}
        /\ last' = [op |-> "refresh_daily_rates", role |-> sessions[actor].role,
                    status |-> "ok", actor |-> actor, date |-> date,
                    updated_count |-> Cardinality(updated)]
        /\ sessions' = [sessions EXCEPT ![actor] =
                           [pc |-> "refreshed", date |-> date,
                            updated |-> {c.id : c \in updated}]]
        /\ UNCHANGED <<suppliers, customers, sales, withdrawals, call>>

\* the collection is entered with 2.05 liters and fat 5.35: stored with fat
\* 5.3 at the rate of 5.4, so that a refresh of its date has a rate to change
RaceEntryForms ==
    {CollectionForm("1", 205, 535, "buffalo", "morning", iso(2026, 3, 1), "")}

\* one edit changes the liters alone, one the fat as well
RaceEditForms ==
    {EditForm(1000, 535, "buffalo", "", NoDate, ""),
     EditForm(1000, 650, "buffalo", "", NoDate, "checked")}

NextRace ==
    \/ \E data \in BalanceSupplierForms : suppliers_post(Admin, data)
    \/ \E data \in RaceEntryForms : add_collection(Employee, data, iso(2026, 3, 1))
    \/ \E actor \in Actors, user \in {Admin, SupplierUser}, cid \in 1..2 :
           edit_collection_load(actor, user, cid)
    \/ \E actor \in Actors, data \in RaceEditForms : edit_collection_commit(actor, data)
    \/ \E actor \in Actors, user \in {Admin, Employee}, date \in RefreshDates :
           refresh_daily_rates_load(actor, user, date)
    \/ \E actor \in Actors : refresh_daily_rates_commit(actor)

SpecRace == Init /\ [][NextRace]_vars

\* one client has committed an edit of a collection and the other a refresh
\* that updated the same collection
EditAndRefreshCommitted ==
    \E e \in Actors, r \in Actors :
        /\ sessions[e].pc = "done" /\ sessions[e].status = "ok"
        /\ sessions[r].pc = "refreshed"
        /\ sessions[e].cid \in sessions[r].updated

\* C23 as claimed: after an edit_collection request and a refresh_daily_rates
\* request on the same collection have both committed, in whatever order
\* their steps were taken, the stored record has
\* amount = floor(liters * rate_per_liter).
C23_AmountMatchesAfterBoth ==
    EditAndRefreshCommitted =>
        \A c \in collections : c.amount = math_floor_mul(c.liters, c.rate_per_liter)

-----------------------------------------------------------------------------
(* The month summary export and the daily view (src/app.py 889-954,        *)
(* 1302-1337)                                                              *)

\* the row an outer join yields for a supplier that nothing matches: every
\* column NULL, which SUM passes over
NullJoined == {[id |-> None, amount |-> 0, liters |-> 0]}

\* lines 1308-1315: the rows of Supplier outer-joined with its collections
\* of the month and outer-joined again with its withdrawals of the month,
\* one for every pair of a collection and a withdrawal
export_joined(s, month) ==
    LET cs == in_month({c \in collections : c.supplier_id = s.id}, month)
        ws == in_month({w \in withdrawals : w.supplier_id = s.id}, month)
    IN  {[collection |-> c.id, withdrawal |-> w.id,
          collection_amount |-> c.amount, collection_liters |-> c.liters,
          withdrawal_amount |-> w.amount] :
             c \in IF cs = {} THEN NullJoined ELSE cs,
             w \in IF ws = {} THEN NullJoined ELSE ws}

\* lines 1308-1328: the sums over the joined rows grouped by supplier, and
\* the line written for the group
export_row(s, month) ==
    LET total_amount == SumOver(export_joined(s, month), "collection_amount")
        total_liters == SumOver(export_joined(s, month), "collection_liters")
        withdrawn == SumOver(export_joined(s, month), "withdrawal_amount")
        balance == total_amount - withdrawn
    IN  [supplier_id |-> s.supplier_id,
         name |-> s.name,
         total_liters |-> total_liters,
         total_amount |-> total_amount,
         withdrawn |-> withdrawn,
         balance |-> balance]

\* GET /export_month_summary_csv?month=<month>
export_month_summary_csv(user, month) ==
    /\ last' = [op |-> "export_month_summary_csv", role |-> user.role, status |-> "ok",
                month |-> month,
                rows |-> {export_row(s, month) : s \in suppliers}]
    /\ UNCHANGED <<tables, call, sessions>>

\* lines 896-907: the rows of Supplier outer-joined with its collections of
\* the date; collection holds the collection of the row, and nothing in the
\* row of a supplier that no collection of the date matches, whose
\* Collection columns are all NULL
daily_joined(req_date) ==
    UNION {LET matched == {c \in collections : c.supplier_id = s.id /\ c.date = req_date}
           IN  IF matched = {}
               THEN {[supplier_id |-> s.supplier_id, name |-> s.name, collection |-> {}]}
               ELSE {[supplier_id |-> s.supplier_id, name |-> s.name, collection |-> {c}] :
                         c \in matched}
           : s \in suppliers}

\* lines 909-912: the WHERE clause of a session filter, applied to the
\* joined rows
daily_results(req_date, session_filter) ==
    IF session_filter = "all" THEN daily_joined(req_date)
    ELSE {r \in daily_joined(req_date) :
              \/ \E c \in r.collection : c.session = session_filter
              \/ r.collection = {}}

\* lines 916-940: the row shown for a result
daily_shown(r, req_date) ==
    IF \E c \in r.collection : c.date # NoDate
    THEN LET c == CHOOSE c \in r.collection : TRUE
         IN  [supplier_id |-> r.supplier_id, name |-> r.name, date |-> c.date,
              session |-> c.session, liters |-> c.liters, fat |-> c.fat,
              milk_type |-> c.milk_type, rate_per_liter |-> c.rate_per_liter,
              amount |-> c.amount, id |-> c.id]
    ELSE [supplier_id |-> r.supplier_id, name |-> r.name, date |-> req_date,
          session |-> "", liters |-> 0, fat |-> 0, milk_type |-> "",
          rate_per_liter |-> 0, amount |-> 0, id |-> None]

\* GET /daily?date=<req_date>&session=<session_filter>
daily(user, req_date, session_filter) ==
    /\ last' = [op |-> "daily", role |-> user.role, status |-> "ok", date |-> req_date,
                session_filter |-> session_filter,
                rows |-> {daily_shown(r, req_date) :
                              r \in daily_results(req_date, session_filter)}]
    /\ UNCHANGED <<tables, call, sessions>>

DailyDates == {iso(2026, 3, 1), iso(2026, 3, 2)}

SessionFilters == {"all", "morning", "evening"}

ReportSupplierForms ==
    {[supplier_id |-> "1", name |-> "Asha"], [supplier_id |-> "2", name |-> "Ravi"]}

\* a morning and an evening collection of supplier 1 on one day
ReportEntryForms ==
    {CollectionForm("1", 1000, 650, "buffalo", "morning", iso(2026, 3, 1), ""),
     CollectionForm("1", 735, 600, "buffalo", "evening", iso(2026, 3, 1), "")}

NextReports ==
    \/ \E data \in ReportSupplierForms : suppliers_post(Admin, data)
    \/ \E data \in ReportEntryForms : add_collection(Admin, data, iso(2026, 3, 1))
    \/ \E data \in RegisterWithdrawalForms :
           /\ Cardinality(withdrawals) < MaxDeskWithdrawals
           /\ add_withdrawal(Admin, data, iso(2026, 3, 1))
    \/ \E month \in ReportMonths : monthly(Admin, month)
    \/ \E month \in ReportMonths : export_month_summary_csv(Admin, month)
    \/ \E req_date \in DailyDates, session_filter \in SessionFilters :
           daily(Admin, req_date, session_filter)

SpecReports == Init /\ [][NextReports]_vars

\* C24 as claimed: for every supplier and month the exported row has the
\* total_amount, withdrawn and balance of the monthly report's row: the sum
\* of the supplier's in-month collection amounts, the sum of its in-month
\* withdrawal amounts, and their difference.
C24_ExportEqualsMonthly ==
    last.op = "export_month_summary_csv" =>
        \A s \in suppliers :
            \E row \in last.rows :
                /\ row.supplier_id = s.supplier_id
                /\ row.total_amount = monthly_row(s, last.month).total_amount
                /\ row.withdrawn = monthly_row(s, last.month).withdrawn
                /\ row.balance = monthly_row(s, last.month).balance
                /\ row.total_amount = SumOver(StoredInMonth(collections, s, last.month), "amount")
                /\ row.withdrawn = SumOver(StoredInMonth(withdrawals, s, last.month), "amount")


\* C25 as claimed: for any date and session filter the rows of the daily view
\* hold every stored supplier at least once, and a supplier with no
\* collection matching the date and the filter is shown as a row of zero
\* liters, zero amount and no collection id.
C25_DailyShowsEverySupplier ==
    last.op = "daily" =>
        \A s \in suppliers :
            /\ \E row \in last.rows : row.supplier_id = s.supplier_id
            /\ (\A c \in collections :
                    ~(/\ c.supplier_id = s.id
                      /\ c.date = last.date
                      /\ last.session_filter \in {"all", c.session}))
               => \E row \in last.rows :
                      /\ row.supplier_id = s.supplier_id
                      /\ row.liters = 0 /\ row.amount = 0 /\ row.id = None

\* C26 as claimed: every stored withdrawal references a stored supplier, so
\* that edit_withdrawal and delete_withdrawal can always resolve the supplier
\* of the withdrawal they are given.
C26_WithdrawalsHaveSuppliers ==
    /\ \A w \in withdrawals : \E s \in suppliers : s.id = w.supplier_id
    /\ last.op \in {"edit_withdrawal", "delete_withdrawal"} => last.status # "attribute_error"

-----------------------------------------------------------------------------
(* What a refresh of a day's rates touches (src/app.py 957-1012)           *)

\* collections of fat 5.35, stored as 5.3 at the rate of 5.4, on the day
\* refreshed, on the next day and before the new rates; and one of fat
\* 10.05, stored as 10.1, a fat that has no rate
RefreshEntryForms ==
    {CollectionForm("1", 205, 535, "buffalo", "morning", iso(2026, 3, 1), ""),
     CollectionForm("1", 205, 535, "buffalo", "evening", iso(2026, 3, 1), ""),
     CollectionForm("1", 205, 535, "buffalo", "morning", iso(2026, 3, 2), ""),
     CollectionForm("1", 205, 535, "buffalo", "morning", iso(2026, 1, 31), ""),
     CollectionForm("1", 1000, 1005, "buffalo", "morning", iso(2026, 3, 1), "")}

RefreshSaleForms ==
    {SaleForm("7", 205, 535, "buffalo", "morning", iso(2026, 3, 1), "")}

RefreshedDates == {iso(2026, 1, 31), iso(2026, 3, 1)}

NextRefresh ==
    \/ suppliers_post(Admin, [supplier_id |-> "1", name |-> "Asha"])
    \/ customers_post(Admin, [cust_id |-> "7", name |-> "Dairy"])
    \/ \E data \in RefreshEntryForms : add_collection(Admin, data, iso(2026, 3, 1))
    \/ \E data \in RefreshSaleForms : add_sale(Admin, data, iso(2026, 3, 1))
    \/ \E data \in RegisterWithdrawalForms :
           /\ Cardinality(withdrawals) < MaxDeskWithdrawals
           /\ add_withdrawal(Admin, data, iso(2026, 3, 1))
    \/ \E user \in {Admin, Employee}, date \in RefreshedDates :
           refresh_daily_rates(user, date)

SpecRefresh == Init /\ [][NextRefresh]_vars

\* C27: a refresh of a date before 2026-02-01 changes no record; a refresh
\* of a later date changes nothing but rate_per_liter and amount of
\* collections dated exactly that date: sales, withdrawals, collections of
\* other dates and collections whose fat has no rate stay as they were.
C27_RefreshFrame ==
    [][last'.op = "refresh_daily_rates" =>
          /\ UNCHANGED <<suppliers, customers, sales, withdrawals>>
          /\ last'.status # "denied" /\ str_lt(last'.date, iso(2026, 2, 1))
                 => collections' = collections
          /\ {c.id : c \in collections'} = {c.id : c \in collections}
          /\ Cardinality(collections') = Cardinality(collections)
          /\ \A c \in collections : \E q \in collections' :
                 /\ q.id = c.id
                 /\ SameButRateAndAmount(c, q)
                 /\ last'.status # "denied" /\ c.date # last'.date => q = c
                 /\ last'.status # "denied"
                        /\ find_rate(c.fat, c.milk_type, last'.date) = None => q = c]_vars

\* C27 witness: a refresh updated a collection of its date while a collection
\* that it had to leave alone, of another date or of a fat with no rate, was
\* stored at a rate that is not the chart's
C27_Witness ==
    /\ last.op = "refresh_daily_rates"
    /\ last.status = "ok"
    /\ last.updated_count > 0
    /\ \E c \in collections :
           /\ c.date # last.date \/ find_rate(c.fat, c.milk_type, last.date) = None
           /\ c.rate_per_liter # find_rate(c.fat, c.milk_type, c.date)

\* C28: a refresh is idempotent: after one refresh of a date every
\* collection of that date whose fat resolves has
\* rate_per_liter = find_rate(fat, milk_type, date), and a second refresh of
\* the date that follows it at once updates no record and leaves every table
\* as it was.
C28_RefreshIdempotent ==
    /\ [](last.op = "refresh_daily_rates" /\ last.status = "ok" =>
            \A c \in collections :
                c.date = last.date /\ find_rate(c.fat, c.milk_type, last.date) # None
                    => c.rate_per_liter = find_rate(c.fat, c.milk_type, last.date))
    /\ [][/\ last.op = "refresh_daily_rates" /\ last.status = "ok"
          /\ last'.op = "refresh_daily_rates" /\ last'.status = "ok"
          /\ last'.date = last.date
          => last'.updated_count = 0 /\ UNCHANGED tables]_vars

\* C28 witness: a refresh of a date whose two collections earlier refreshes
\* had moved to the chart's rate reports that it updated none
C28_Witness ==
    /\ last.op = "refresh_daily_rates"
    /\ last.status = "ok"
    /\ last.updated_count = 0
    /\ Cardinality({c \in collections :
           /\ c.date = last.date
           /\ c.rate_per_liter = find_rate(c.fat, c.milk_type, last.date)
           /\ c.rate_per_liter # find_rate(535, c.milk_type, c.date)}) = 2

-----------------------------------------------------------------------------
(* Session sums and cycle totals, checked under SpecCycles                 *)

\* the amounts and counts of the two sessions of a cycle add up to the
\* cycle's, the hundredths of their liters as well, and whatever is not a
\* morning transaction is counted under evening
SessionsAddUp(cycle) ==
    LET c == call.result[cycle]
    IN  /\ c.total_amount = c.morning.amount + c.evening.amount
        /\ c.total_liters = c.morning.liters + c.evening.liters
        /\ c.morning.count + c.evening.count =
               Cardinality(WellFormedIn(cycle, "morning") \cup WellFormedIn(cycle, "evening"))
        /\ c.morning.count =
               Cardinality({i \in WellFormedIn(cycle, "morning") \cup WellFormedIn(cycle, "evening") :
                                call.collections[i].session = "morning"})
        /\ c.evening.count =
               Cardinality({i \in WellFormedIn(cycle, "morning") \cup WellFormedIn(cycle, "evening") :
                                call.collections[i].session # "morning"})

\* the double total_liters is the double morning.liters + evening.liters
LitersSumExact(cycle) ==
    LET c == call.result[cycle]
    IN  c.total_liters_ulps =
            float_sum_ulps(c.morning.liters, c.morning.liters_ulps,
                           c.evening.liters, c.evening.liters_ulps)

\* C29 as claimed: in each cycle total_amount == morning.amount +
\* evening.amount, total_liters == morning.liters + evening.liters, the two
\* session counts add up to the number of transactions assigned to the
\* cycle, and a transaction whose session is not 'morning' is counted under
\* evening.
C29_SessionsAddUpExactly ==
    CyclesReturned =>
        \A cycle \in {"cycle_1", "cycle_2"} : SessionsAddUp(cycle) /\ LitersSumExact(cycle)

\* C29 amended: the amounts and the counts add up exactly and a session that
\* is not 'morning' is counted under evening; total_liters and
\* morning.liters + evening.liters agree to the hundredth of a liter, and as
\* doubles may differ in the last place, being sums of the same liters taken
\* in different orders.
C29_SessionsAddUpToRounding ==
    CyclesReturned =>
        \A cycle \in {"cycle_1", "cycle_2"} : SessionsAddUp(cycle)

\* C29 witness: February 2026 over 10 liters in the morning of the 16th,
\* 2.05 liters with no session on a day 00 and 7.35 liters in the morning of
\* the 30th: the 2.05 are under evening, and total_liters is 19.4 where
\* morning.liters + evening.liters is 19.400000000000002
C29_Witness ==
    /\ CyclesReturned
    /\ call.year = 2026 /\ call.month = 2
    /\ Len(call.collections) = 3
    /\ call.collections[1].liters = 1000
    /\ call.collections[2].session = "" /\ call.collections[2].liters = 205
    /\ call.collections[3].liters = 735
    /\ call.result.cycle_2.evening.count = 1
    /\ call.result.cycle_2.total_liters = 1940
    /\ call.result.cycle_2.total_liters_ulps = 0
    /\ float_sum_ulps(call.result.cycle_2.morning.liters,
                      call.result.cycle_2.morning.liters_ulps,
                      call.result.cycle_2.evening.liters,
                      call.result.cycle_2.evening.liters_ulps) = 1

-----------------------------------------------------------------------------
(* Supplier identifiers, checked under SpecRegister                        *)

\* C30: no two stored suppliers share a supplier_id: a supplier whose
\* supplier_id is already stored, or whose supplier_id or name is empty, is
\* rejected and nothing changes, and edit_supplier changes the supplier_id of
\* no supplier.
C30_SupplierIdsUnique ==
    /\ [](\A s \in suppliers : \A t \in suppliers : s.supplier_id = t.supplier_id => s = t)
    /\ [][last'.op = "suppliers" /\ last'.status # "denied"
              /\ (\/ last'.data.supplier_id = ""
                  \/ last'.data.name = ""
                  \/ \E s \in suppliers : s.supplier_id = last'.data.supplier_id)
          => last'.status # "ok" /\ UNCHANGED tables]_vars
    /\ [][last'.op = "edit_supplier"
          => {<<s.id, s.supplier_id>> : s \in suppliers'}
                 = {<<s.id, s.supplier_id>> : s \in suppliers}]_vars

\* C30 witness: with two suppliers stored, the form of one whose name has
\* since been edited is sent again and refused
C30_Witness ==
    /\ last.op = "suppliers"
    /\ last.status = "exists"
    /\ Cardinality(suppliers) = 2
    /\ \E s \in suppliers :
           s.supplier_id = last.data.supplier_id /\ s.name # last.data.name

====
